---- MODULE Spec2Model ----
(***************************************************************************)
(* A model of satmod (hamersaw/satmod): the geocode encoder, the window    *)
(* enumeration and the split operator of the tile engine.                  *)
(*                                                                         *)
(* Numbers.  The program computes in f64.  The geocode side of the model   *)
(* computes in exact decimal fixed point: a number is <<i, a, b>> and      *)
(* stands for i + a/10^9 + b/10^18 with 0 <= a, b < 10^9 (i carries the    *)
(* sign, so -0.25 is <<-1, 750000000, 0>>).  Every constant of the source  *)
(* and every midpoint the encoder forms for the inputs examined here is    *)
(* such a number, so sums, differences, halvings and comparisons are the   *)
(* ones f64 performs whenever f64 performs them without rounding.  The     *)
(* raster side (split) computes in integers, a subset of f64 on which its  *)
(* sums and products are exact.                                            *)
(***************************************************************************)
EXTENDS Integers, Sequences, FiniteSets, TLC

VARIABLES
    mode,        \* which operation this behaviour exercises
    pc,          \* position of the call: "call" before, "done"/... after
    geocode,     \* encode / get_intervals: the Geocode variant (self)
    ex, ey,      \* encode: the point (x, y)
    precision,   \* encode / get_intervals: precision
    build,       \* "debug" (overflow checks on) or "release" (wrapping)
    result,      \* what encode returned
    intervals,   \* what get_intervals returned
    box,         \* get_windows: (min_x, max_x, min_y, max_y)
    windows,     \* what get_windows returned
    dataset,     \* split: the source dataset
    win,         \* split: the window (min_cx, max_cx, min_cy, max_cy)
    coord_transform,  \* split: the source-CRS to target-CRS transformer
    bound_min_px, bound_max_px, bound_min_py, bound_max_py,
                 \* split: the pixel bounding box
    bound_min_cx, bound_max_cx, bound_min_cy, bound_max_cy,
                 \* split: its envelope in the target CRS, as last computed
    iterations,  \* split: passes of the loop that widened the box
    split_out,   \* what split returned
    decoded,     \* what decode returned
    ct_error,    \* get_bounds: "none", or the library call that fails for
                 \* this pair of CRSs: "new" or "transform"
    bounds_out,  \* what get_bounds returned
    tiles,       \* merge: the datasets passed to it, in order
    next_window, \* the caller of split: the index of the next window
    merge_out,   \* what merge returned
    buffer,      \* the bytes write produced, as read is given them
    fault,       \* what was done to the bytes between write and read
    dataset2     \* what read returned

geoVars == <<geocode, ex, ey, precision, build, result, intervals, box,
             windows>>

pxVars == <<bound_min_px, bound_max_px, bound_min_py, bound_max_py>>

cxVars == <<bound_min_cx, bound_max_cx, bound_min_cy, bound_max_cy>>

splitVars == <<dataset, win, coord_transform, pxVars, cxVars, iterations,
               split_out>>

mergeVars == <<tiles, next_window, merge_out>>

serVars == <<buffer, fault, dataset2>>

auxVars == <<decoded, ct_error, bounds_out, mergeVars, serVars>>

vars == <<mode, pc, geoVars, splitVars, auxVars>>

----------------------------------------------------------------------------
(* f64 arithmetic on the values the model meets, as exact fixed point.     *)

FxBase == 10^9

FxNorm(i, a, b) ==
    LET b2 == b % FxBase
        a1 == a + ((b - b2) \div FxBase)
        a2 == a1 % FxBase
    IN  <<i + ((a1 - a2) \div FxBase), a2, b2>>

FxInt(n) == <<n, 0, 0>>

FxAdd(p, q) == FxNorm(p[1] + q[1], p[2] + q[2], p[3] + q[3])

FxSub(p, q) == FxNorm(p[1] - q[1], p[2] - q[2], p[3] - q[3])

FxNeg(p) == FxSub(FxInt(0), p)

\* p / 2.0; exact while the quotient has at most 18 decimals, cut below.
FxHalf(p) ==
    LET a == ((p[1] % 2) * FxBase) + p[2]
        b == ((a % 2) * FxBase) + p[3]
    IN  <<p[1] \div 2, a \div 2, b \div 2>>

FxLt(p, q) ==
    \/ p[1] < q[1]
    \/ p[1] = q[1] /\ p[2] < q[2]
    \/ p[1] = q[1] /\ p[2] = q[2] /\ p[3] < q[3]

FxGt(p, q) == FxLt(q, p)

FxLe(p, q) == ~FxLt(q, p)

\* sign * (whole + nano/10^9): a decimal literal of the source.
FxDec(sign, whole, nano) ==
    IF sign < 0 THEN FxNeg(<<whole, nano, 0>>) ELSE <<whole, nano, 0>>

RECURSIVE FxMulInt(_, _)
FxMulInt(p, n) ==
    IF n = 0 THEN FxInt(0)
    ELSE IF n < 0 THEN FxNeg(FxMulInt(p, -n))
    ELSE LET h == FxMulInt(p, n \div 2)
             d == FxAdd(h, h)
         IN  IF n % 2 = 1 THEN FxAdd(d, p) ELSE d

\* p / 10.0; exact while the quotient has at most 18 decimals, cut below.
FxTenth(p) ==
    <<p[1] \div 10,
      ((p[1] % 10) * (10^8)) + (p[2] \div 10),
      ((p[2] % 10) * (10^8)) + (p[3] \div 10)>>

RECURSIVE FxHalfN(_, _)
FxHalfN(p, k) == IF k = 0 THEN p ELSE FxHalfN(FxHalf(p), k - 1)

\* floor(a / b) for a >= 0 and b > 0
RECURSIVE FxQuot(_, _)
FxQuot(a, b) ==
    IF FxLt(a, b) THEN 0
    ELSE LET q == 2 * FxQuot(a, FxAdd(b, b))
         IN  IF FxLe(FxMulInt(b, q + 1), a) THEN q + 1 ELSE q

\* (a / b).floor() and (a / b).ceil() for b > 0, as integers
FxFloorDiv(a, b) ==
    IF FxLe(FxInt(0), a) THEN FxQuot(a, b)
    ELSE LET n == FxNeg(a)
             q == FxQuot(n, b)
         IN  IF FxMulInt(b, q) = n THEN -q ELSE -(q + 1)

\* the quotient rounded down where line 164 and 167 round up
FxCeilDiv_Floor(a, b) == FxFloorDiv(a, b)

FxCeilDiv(a, b) == -FxFloorDiv(FxNeg(a), b)

----------------------------------------------------------------------------
(* coordinate.rs: the Geocode constants.                                   *)

Geocodes == {"Geohash", "QuadTile"}

GEOHASH_BOUNDS == <<FxInt(-180), FxInt(180), FxInt(-90), FxInt(90)>>

GEOHASH32_CHARS ==
    <<"0", "1", "2", "3", "4", "5", "6", "7", "8", "9", "b", "c", "d", "e",
      "f", "g", "h", "j", "k", "m", "n", "p", "q", "r", "s", "t", "u", "v",
      "w", "x", "y", "z">>

QUADTILE_BOUNDS ==
    <<FxDec(-1, 20037508, 342789248), FxDec(1, 20037508, 342789248),
      FxDec(-1, 20037508, 342789248), FxDec(1, 20037508, 342789248)>>

QUADTILE_CHARS == <<"2", "0", "3", "1">>

\* the match of encode: (min_x, max_x, min_y, max_y, char_bits, codes)
GeocodeBounds(g) == IF g = "Geohash" THEN GEOHASH_BOUNDS ELSE QUADTILE_BOUNDS

CharBits(g) == IF g = "Geohash" THEN 5 ELSE 2

Codes(g) == IF g = "Geohash" THEN GEOHASH32_CHARS ELSE QUADTILE_CHARS

----------------------------------------------------------------------------
(* coordinate.rs: Geocode::encode.                                         *)

Builds == {"debug", "release"}

I8_MAX == 127

\* line 43: the range check of encode
OutOfRange(b, x, y) ==
    FxLt(x, b[1]) \/ FxGt(x, b[2]) \/ FxLt(y, b[3]) \/ FxGt(y, b[4])

\* split on x value with the halves exchanged: the half without x is kept
SplitX_OtherHalf(st, x) ==
    LET mid == FxHalf(FxAdd(st.max_x, st.min_x))
    IN  IF FxGt(x, mid)
        THEN [st EXCEPT !.hash_value = (2 * @) + 1, !.max_x = mid]
        ELSE [st EXCEPT !.hash_value = 2 * @, !.min_x = mid]

\* lines 56-64: split on x value
SplitX(st, x) ==
    LET mid == FxHalf(FxAdd(st.max_x, st.min_x))
    IN  IF FxGt(x, mid)
        THEN [st EXCEPT !.hash_value = (2 * @) + 1, !.min_x = mid]
        ELSE [st EXCEPT !.hash_value = 2 * @, !.max_x = mid]

\* split on y value with the bit inverted: 1 for the lower half
SplitY_LowIsOne(st, y) ==
    LET mid == FxHalf(FxAdd(st.max_y, st.min_y))
    IN  IF FxGt(y, mid)
        THEN [st EXCEPT !.hash_value = 2 * @, !.min_y = mid]
        ELSE [st EXCEPT !.hash_value = (2 * @) + 1, !.max_y = mid]

\* lines 66-74: split on y value
SplitY(st, y) ==
    LET mid == FxHalf(FxAdd(st.max_y, st.min_y))
    IN  IF FxGt(y, mid)
        THEN [st EXCEPT !.hash_value = (2 * @) + 1, !.min_y = mid]
        ELSE [st EXCEPT !.hash_value = 2 * @, !.max_y = mid]

\* line 76: bits_total += 1 on an i8: past 127 a build with overflow checks
\* panics, a build without them wraps to -128.
IncBitsTotal(st, bld) ==
    IF st.bits_total < I8_MAX
    THEN [st EXCEPT !.bits_total = @ + 1]
    ELSE IF bld = "debug"
         THEN [st EXCEPT !.panicked = TRUE]
         ELSE [st EXCEPT !.bits_total = -I8_MAX - 1]

\* one pass that starts with y: the parity test of line 55 inverted
EncodeBit_YFirst(st, x, y, bld) ==
    IncBitsTotal(IF st.bits_total % 2 = 0 THEN SplitY(st, y)
                                          ELSE SplitX(st, x), bld)

\* lines 55-76: one pass of the body of `for _ in 0..char_bits`
EncodeBit(st, x, y, bld) ==
    IncBitsTotal(IF st.bits_total % 2 = 0 THEN SplitX(st, x)
                                          ELSE SplitY(st, y), bld)

\* lines 54-77: the `for` loop, n passes left
RECURSIVE EncodeChar(_, _, _, _, _)
EncodeChar(st, x, y, n, bld) ==
    IF n = 0 \/ st.panicked THEN st
    ELSE EncodeChar(EncodeBit(st, x, y, bld), x, y, n - 1, bld)

\* the loop condition with <= for <: one character too many
MoreChars_Inclusive(out, p) == Len(out) <= p

\* line 53: the condition of the `while` loop
MoreChars(out, p) == Len(out) < p

\* lines 53-83: the `while out.len() < precision` loop
RECURSIVE EncodeLoop(_, _, _, _, _, _, _)
EncodeLoop(st, out, x, y, p, g, bld) ==
    IF ~MoreChars(out, p)
    THEN [kind |-> "Ok", out |-> out,
          cell |-> <<st.min_x, st.max_x, st.min_y, st.max_y>>]
    ELSE LET st2 == EncodeChar(st, x, y, CharBits(g), bld)
         IN  IF st2.panicked
             THEN [kind |-> "Panic", out |-> <<>>, cell |-> <<>>]
             ELSE EncodeLoop([st2 EXCEPT !.hash_value = 0],
                             Append(out, Codes(g)[st2.hash_value + 1]),
                             x, y, p, g, bld)

\* lines 31-86: Geocode::encode(x, y, precision).  kind is Ok, Err (the
\* OutOfRange error) or Panic; out is the string, one character per element;
\* cell is (min_x, max_x, min_y, max_y) as the locals stand at the return.
Encode(g, x, y, p, bld) ==
    LET b == GeocodeBounds(g)
    IN  IF OutOfRange(b, x, y)
        THEN [kind |-> "Err", out |-> <<>>, cell |-> <<>>]
        ELSE EncodeLoop([min_x |-> b[1], max_x |-> b[2], min_y |-> b[3],
                         max_y |-> b[4], bits_total |-> 0, hash_value |-> 0,
                         panicked |-> FALSE],
                        <<>>, x, y, p, g, bld)

\* the coordinates of tests::geohash_encode and tests::quadtile_encode
APPLETON_LAT_LONG == <<FxDec(-1, 88, 400000000), FxDec(1, 44, 266667000)>>
APPLETON_MERCATOR ==
    <<FxDec(-1, 9840642, 990000000), FxDec(1, 5506802, 680000000)>>
FORT_COLLINS_LAT_LONG ==
    <<FxDec(-1, 105, 78056000), FxDec(1, 40, 559167000)>>
FORT_COLLINS_MERCATOR ==
    <<FxDec(-1, 11697235, 690000000), FxDec(1, 4947534, 740000000)>>
HAMBURG_LAT_LONG == <<FxDec(1, 10, 1389000), FxDec(1, 53, 565278000)>>
HAMBURG_MERCATOR ==
    <<FxDec(1, 1113349, 530000000), FxDec(1, 7088251, 300000000)>>

----------------------------------------------------------------------------
(* The inputs of the encode calls examined.                                *)

MaxPrecision == 26
EncGridBits == 3

\* the points min + i * (span / 2^bits), i in lo..hi, of one axis
AxisLattice(mn, mx, bits, lo, hi) ==
    LET step == FxHalfN(FxSub(mx, mn), bits)
    IN  {FxAdd(mn, FxMulInt(step, i)) : i \in lo..hi}

\* the points min + k * (span / 10), k in 0..10, of one axis
AxisTenths(mn, mx) ==
    LET step == FxTenth(FxSub(mx, mn))
    IN  {FxAdd(mn, FxMulInt(step, k)) : k \in 0..10}

\* a dyadic lattice over the native bounds (its rim on the bounds, one ring
\* outside them), a lattice of tenths, and the coordinates of the unit tests
EncodePoints(g) ==
    LET b == GeocodeBounds(g)
        n == 2^EncGridBits
    IN  (AxisLattice(b[1], b[2], EncGridBits, -1, n + 1)
            \X AxisLattice(b[3], b[4], EncGridBits, -1, n + 1))
        \cup (AxisTenths(b[1], b[2]) \X AxisTenths(b[3], b[4]))
        \cup (IF g = "Geohash"
              THEN {HAMBURG_LAT_LONG, FORT_COLLINS_LAT_LONG, APPLETON_LAT_LONG}
              ELSE {HAMBURG_MERCATOR, FORT_COLLINS_MERCATOR,
                    APPLETON_MERCATOR})

NoResult == [kind |-> "None", out |-> <<>>, cell |-> <<>>]

NoIntervals ==
    [kind |-> "None", x |-> FxInt(0), y |-> FxInt(0),
     x_span |-> FxInt(0), x_bits |-> 0, y_span |-> FxInt(0), y_bits |-> 0]

NoBox == <<FxInt(0), FxInt(0), FxInt(0), FxInt(0)>>

NoDataset ==
    [width |-> 0, height |-> 0, count |-> 0, transform |-> <<0, 0, 0, 0, 0, 0>>,
     projection |-> "", no_data |-> <<>>, pixels |-> <<>>]

NoSplit == [kind |-> "Pending", dataset |-> NoDataset]

\* no split call in this behaviour
SplitIdle ==
    /\ dataset = NoDataset
    /\ win = <<0, 0, 0, 0>>
    /\ coord_transform = <<0, 0, 0, 0, 0, 0>>
    /\ bound_min_px = 0 /\ bound_max_px = 0
    /\ bound_min_py = 0 /\ bound_max_py = 0
    /\ bound_min_cx = 0 /\ bound_max_cx = 0
    /\ bound_min_cy = 0 /\ bound_max_cy = 0
    /\ iterations = 0
    /\ split_out = NoSplit

NoDecoded == [kind |-> "None", cell |-> <<>>]

NoBounds == [kind |-> "None", box |-> <<>>]

NoMerge == [kind |-> "Pending", dataset |-> NoDataset]

\* no merge call in this behaviour
MergeIdle ==
    /\ tiles = <<>>
    /\ next_window = 0
    /\ merge_out = NoMerge

\* no call of the other operations in this behaviour
NoRead == [kind |-> "Pending", dataset |-> NoDataset, rest |-> <<>>]

\* no write or read call in this behaviour
SerIdle ==
    /\ buffer = <<>>
    /\ fault = "none"
    /\ dataset2 = NoRead

AuxIdle ==
    /\ decoded = NoDecoded
    /\ ct_error = "none"
    /\ bounds_out = NoBounds
    /\ MergeIdle
    /\ SerIdle

InitEncode ==
    /\ mode = "encode"
    /\ pc = "call"
    /\ geocode \in Geocodes
    /\ \E pt \in EncodePoints(geocode) : ex = pt[1] /\ ey = pt[2]
    /\ precision \in 0..MaxPrecision
    /\ build \in Builds
    /\ result = NoResult
    /\ intervals = NoIntervals
    /\ box = NoBox
    /\ windows = <<>>
    /\ SplitIdle
    /\ AuxIdle

EncodeCall ==
    /\ mode = "encode"
    /\ pc = "call"
    /\ pc' = "done"
    /\ result' = Encode(geocode, ex, ey, precision, build)
    /\ UNCHANGED <<mode, geocode, ex, ey, precision, build, intervals, box,
                   windows, splitVars, auxVars>>

NextEncode == EncodeCall

SpecEncode == InitEncode /\ [][NextEncode]_vars

----------------------------------------------------------------------------
(* Claims about Geocode::encode, checked under SpecEncode.                 *)

Returned == mode = "encode" /\ pc = "done"

\* r is Ok(code)
IsOk(r, code) == r.kind = "Ok" /\ r.out = code

InsideBounds(g, x, y) ==
    LET b == GeocodeBounds(g)
    IN  FxLe(b[1], x) /\ FxLe(x, b[2]) /\ FxLe(b[3], y) /\ FxLe(y, b[4])

StrictlyInsideBounds(g, x, y) ==
    LET b == GeocodeBounds(g)
    IN  FxLt(b[1], x) /\ FxLt(x, b[2]) /\ FxLt(b[3], y) /\ FxLt(y, b[4])

GeohashAlphabet ==
    {"0", "1", "2", "3", "4", "5", "6", "7", "8", "9", "b", "c", "d", "e",
     "f", "g", "h", "j", "k", "m", "n", "p", "q", "r", "s", "t", "u", "v",
     "w", "x", "y", "z"}

QuadTileAlphabet == {"0", "1", "2", "3"}

Alphabet(g) == IF g = "Geohash" THEN GeohashAlphabet ELSE QuadTileAlphabet

\* C6: for every precision p in 1..12, each geocode and every point strictly
\* inside the geocode's native bounds, encode succeeds and returns exactly p
\* characters, each of the geocode's alphabet (32 symbols for Geohash, 4 for
\* QuadTile).
C6_EncodeLength ==
    (Returned /\ precision \in 1..12
        /\ StrictlyInsideBounds(geocode, ex, ey))
    => /\ result.kind = "Ok"
       /\ Len(result.out) = precision
       /\ \A i \in 1..Len(result.out) : result.out[i] \in Alphabet(geocode)
       /\ Cardinality(Alphabet(geocode)) = (IF geocode = "Geohash" THEN 32 ELSE 4)

C6_Witness ==
    /\ Returned /\ precision = 12 /\ geocode = "Geohash"
    /\ <<ex, ey>> = APPLETON_LAT_LONG
    /\ result.kind = "Ok" /\ Len(result.out) = 12

\* C7: encode returns the OutOfRange error exactly when (x, y) lies outside
\* the native bounds (a point on the boundary is inside); in every other case
\* it returns Ok with a string of length precision; the error carries no code.
C7_OutOfRangeExactly ==
    Returned =>
        /\ (result.kind = "Err") <=> ~InsideBounds(geocode, ex, ey)
        /\ InsideBounds(geocode, ex, ey)
            => (result.kind = "Ok" /\ Len(result.out) = precision)
        /\ (result.kind = "Err") => (result.out = <<>>)

\* The index j of the cell (mn + j*w, mn + (j+1)*w], w = (mx - mn) / 2^n, that
\* holds v (the lowest cell also holds its lower end): the interval that n
\* halvings with the test `v > mid` arrive at, found here by search.
CellIndex(mn, mx, n, v) ==
    LET w == FxHalfN(FxSub(mx, mn), n)
    IN  CHOOSE j \in 0..(2^n - 1) :
            /\ j = 0 \/ FxLt(FxAdd(mn, FxMulInt(w, j)), v)
            /\ FxLe(v, FxAdd(mn, FxMulInt(w, j + 1)))

\* bit m (0 the most significant) of the n-bit number j
BitOf(j, n, m) == (j \div (2^(n - 1 - m))) % 2

\* The interleaved code: with cb bits per character, bit k of the code (from
\* 0) is bit k/2 of the x cell index when k is even and bit (k-1)/2 of the y
\* cell index when k is odd; each character is alphabet[value of its cb bits,
\* most significant first].
RECURSIVE InterleavedValue(_, _, _, _, _, _, _)
InterleavedValue(jx, nx, jy, ny, cb, c, t) ==
    IF t = cb THEN 0
    ELSE LET k == (cb * (c - 1)) + t
             bit == IF k % 2 = 0 THEN BitOf(jx, nx, k \div 2)
                                 ELSE BitOf(jy, ny, (k - 1) \div 2)
         IN  (bit * (2^(cb - 1 - t)))
                 + InterleavedValue(jx, nx, jy, ny, cb, c, t + 1)

InterleavedCode(b, cb, alphabet, x, y, p) ==
    LET nx == ((cb * p) + 1) \div 2
        ny == (cb * p) \div 2
        jx == CellIndex(b[1], b[2], nx, x)
        jy == CellIndex(b[3], b[4], ny, y)
    IN  [c \in 1..p |->
            alphabet[InterleavedValue(jx, nx, jy, ny, cb, c, 0) + 1]]

Geohash32 ==
    <<"0", "1", "2", "3", "4", "5", "6", "7", "8", "9", "b", "c", "d", "e",
      "f", "g", "h", "j", "k", "m", "n", "p", "q", "r", "s", "t", "u", "v",
      "w", "x", "y", "z">>

\* C8: Geohash encode is the standard geohash interleaving (x first, bit 1
\* above the midpoint, 5 bits per character most significant first, alphabet
\* 0123456789bcdefghjkmnpqrstuvwxyz), checked against the interleaved code for
\* precisions 1 and 2, and encode(10.001389, 53.565278, 4) = "u1x0",
\* encode(-105.078056, 40.559167, 6) = "9xjq8z",
\* encode(-88.4, 44.266667, 8) = "dpc5u6t0".
C8_GeohashEncode ==
    (Returned /\ geocode = "Geohash" /\ InsideBounds(geocode, ex, ey)) =>
        /\ precision \in 1..2 =>
             IsOk(result, InterleavedCode(GEOHASH_BOUNDS, 5, Geohash32,
                                          ex, ey, precision))
        /\ (<<ex, ey>> = HAMBURG_LAT_LONG /\ precision = 4) =>
             IsOk(result, <<"u", "1", "x", "0">>)
        /\ (<<ex, ey>> = FORT_COLLINS_LAT_LONG /\ precision = 6) =>
             IsOk(result, <<"9", "x", "j", "q", "8", "z">>)
        /\ (<<ex, ey>> = APPLETON_LAT_LONG /\ precision = 8) =>
             IsOk(result, <<"d", "p", "c", "5", "u", "6", "t", "0">>)

C8_Witness ==
    /\ Returned /\ geocode = "Geohash" /\ precision = 8
    /\ <<ex, ey>> = APPLETON_LAT_LONG
    /\ result.out = <<"d", "p", "c", "5", "u", "6", "t", "0">>

\* C9 as stated: QuadTile.encode(-9840642.99, 5506802.68, 4) returns
\* Ok("1202").
C9_AppletonIs1202 ==
    (Returned /\ geocode = "QuadTile" /\ <<ex, ey>> = APPLETON_MERCATOR
        /\ precision = 4)
    => IsOk(result, <<"1", "2", "0", "2">>)

\* C9 as amended: QuadTile.encode(-9840642.99, 5506802.68, 4) returns
\* Ok("0302").
C9_AppletonIs0302 ==
    (Returned /\ geocode = "QuadTile" /\ <<ex, ey>> = APPLETON_MERCATOR
        /\ precision = 4)
    => IsOk(result, <<"0", "3", "0", "2">>)

C9_Witness ==
    /\ Returned /\ geocode = "QuadTile" /\ <<ex, ey>> = APPLETON_MERCATOR
    /\ precision = 4 /\ result.kind = "Ok"

\* C10: QuadTile encode emits per character alphabet[2*xbit + ybit] with
\* alphabet 2, 0, 3, 1 (2 bits per character, the x bit the more significant),
\* checked against the interleaved code for precisions 1 to 4, and
\* encode(1113349.53, 7088251.30, 4) = "1202",
\* encode(-11697235.69, 4947534.74, 6) = "023101",
\* encode(-9840642.99, 5506802.68, 8) = "03022201".
C10_QuadTileEncode ==
    (Returned /\ geocode = "QuadTile" /\ InsideBounds(geocode, ex, ey)) =>
        /\ precision \in 1..4 =>
             IsOk(result, InterleavedCode(QUADTILE_BOUNDS, 2,
                                          <<"2", "0", "3", "1">>,
                                          ex, ey, precision))
        /\ (<<ex, ey>> = HAMBURG_MERCATOR /\ precision = 4) =>
             IsOk(result, <<"1", "2", "0", "2">>)
        /\ (<<ex, ey>> = FORT_COLLINS_MERCATOR /\ precision = 6) =>
             IsOk(result, <<"0", "2", "3", "1", "0", "1">>)
        /\ (<<ex, ey>> = APPLETON_MERCATOR /\ precision = 8) =>
             IsOk(result, <<"0", "3", "0", "2", "2", "2", "0", "1">>)

C10_Witness ==
    /\ Returned /\ geocode = "QuadTile" /\ precision = 6
    /\ <<ex, ey>> = FORT_COLLINS_MERCATOR
    /\ result.out = <<"0", "2", "3", "1", "0", "1">>

----------------------------------------------------------------------------
(* coordinate.rs: Geocode::get_intervals and get_windows.                  *)

U32_BITS == 32

\* span / 2_u32.pow(bits) as f64.  2_u32.pow(bits) overflows from bits = 32
\* on: a build with overflow checks panics, a build without them computes 0
\* and the quotient is infinite.  A quotient by a power of two is exact in
\* f64: it is span * 2^-bits, kept as the pair (span, bits); v is the same
\* number in fixed point, cut below 18 decimals.
DivPow2(span, bits, bld) ==
    IF bits < U32_BITS
    THEN [kind |-> "Ok", v |-> FxHalfN(span, bits), span |-> span, bits |-> bits]
    ELSE IF bld = "debug"
    THEN [kind |-> "Panic", v |-> FxInt(0), span |-> span, bits |-> bits]
    ELSE [kind |-> "Inf", v |-> FxInt(0), span |-> span, bits |-> bits]

\* the bits of latitude rounded up for an odd precision
LatBits_Ceil(p) == (2 * p) + ((p + 1) \div 2)

\* lines 99-102: the bits of latitude and of longitude
LatBits(p) == (2 * p) + (p \div 2)

\* the bits of longitude without the extra bit of an odd precision
LongBits_AsLat(p) == (2 * p) + (p \div 2)

LongBits(p) == (2 * p) + ((p + 1) \div 2)

\* lines 95-120: Geocode::get_intervals(precision) = (x_interval, y_interval)
GetIntervals(g, p, bld) ==
    LET b == GeocodeBounds(g)
        dx == IF g = "Geohash" THEN DivPow2(FxSub(b[2], b[1]), LongBits(p), bld)
              ELSE DivPow2(FxSub(b[2], b[1]), p, bld)
        dy == IF g = "Geohash" THEN DivPow2(FxSub(b[4], b[3]), LatBits(p), bld)
              ELSE dx
        kind == IF dx.kind = "Panic" \/ dy.kind = "Panic" THEN "Panic"
                ELSE IF dx.kind = "Inf" \/ dy.kind = "Inf" THEN "Inf"
                ELSE "Ok"
    IN  [kind |-> kind, x |-> dx.v, y |-> dy.v,
         x_span |-> dx.span, x_bits |-> dx.bits,
         y_span |-> dy.span, y_bits |-> dy.bits]

\* the window with the upper x bound taken from the y side
Window_MixedMax(x_index, y_index, x_interval, y_interval) ==
    <<FxMulInt(x_interval, x_index), FxMulInt(y_interval, y_index + 1),
      FxMulInt(y_interval, y_index), FxMulInt(y_interval, y_index + 1)>>

\* lines 177-186: the window of (x_index, y_index)
Window(x_index, y_index, x_interval, y_interval) ==
    <<FxMulInt(x_interval, x_index), FxMulInt(x_interval, x_index + 1),
      FxMulInt(y_interval, y_index), FxMulInt(y_interval, y_index + 1)>>

\* lines 160-191: get_windows(min_x, max_x, min_y, max_y, x_interval,
\* y_interval) for positive intervals: the windows in the order pushed, x_index
\* the outer loop and y_index the inner.
GetWindows(b, x_interval, y_interval) ==
    LET min_x_index == FxFloorDiv(b[1], x_interval)
        max_x_index == FxCeilDiv(b[2], x_interval)
        min_y_index == FxFloorDiv(b[3], y_interval)
        max_y_index == FxCeilDiv(b[4], y_interval)
        nx == IF max_x_index > min_x_index THEN max_x_index - min_x_index
              ELSE 0
        ny == IF max_y_index > min_y_index THEN max_y_index - min_y_index
              ELSE 0
    IN  [k \in 1..(nx * ny) |->
            Window(min_x_index + ((k - 1) \div ny),
                   min_y_index + ((k - 1) % ny), x_interval, y_interval)]

----------------------------------------------------------------------------
(* The caller of section 6: intervals of a geocode at a precision, the     *)
(* windows of a box, and the code of a point.                              *)

MaxWindowPrecision == 2
AnchorBits == 3

QuarterOffsets == -3..3

\* the boxes examined: one interval wide and high, centred on a point of the
\* lattice of 2^AnchorBits steps over the native bounds
WindowBoxes(g, iv) ==
    LET b == GeocodeBounds(g)
        n == 2^AnchorBits
        hx == FxHalf(iv.x)
        hy == FxHalf(iv.y)
    IN  {<<FxSub(a[1], hx), FxAdd(a[1], hx), FxSub(a[2], hy), FxAdd(a[2], hy)>> :
            a \in AxisLattice(b[1], b[2], AnchorBits, 0, n)
                    \X AxisLattice(b[3], b[4], AnchorBits, 0, n)}

\* the points examined: the centre of the box moved by quarters of an interval
WindowPoints(bx, iv) ==
    LET cx == FxHalf(FxAdd(bx[1], bx[2]))
        cy == FxHalf(FxAdd(bx[3], bx[4]))
        qx == FxHalfN(iv.x, 2)
        qy == FxHalfN(iv.y, 2)
    IN  {<<FxAdd(cx, FxMulInt(qx, i)), FxAdd(cy, FxMulInt(qy, j))>> :
            i \in QuarterOffsets, j \in QuarterOffsets}

InitWindows ==
    /\ mode = "windows"
    /\ pc = "call"
    /\ geocode \in Geocodes
    /\ precision \in 1..MaxWindowPrecision
    /\ build \in Builds
    /\ ex = FxInt(0)
    /\ ey = FxInt(0)
    /\ result = NoResult
    /\ intervals = NoIntervals
    /\ box = NoBox
    /\ windows = <<>>
    /\ SplitIdle
    /\ AuxIdle

IntervalsCall ==
    /\ mode = "windows"
    /\ pc = "call"
    /\ intervals' = GetIntervals(geocode, precision, build)
    /\ pc' = IF intervals'.kind = "Ok" THEN "intervals" ELSE "failed"
    /\ UNCHANGED <<mode, geocode, ex, ey, precision, build, result, box,
                   windows, splitVars, auxVars>>

WindowsCall ==
    /\ mode = "windows"
    /\ pc = "intervals"
    /\ \E bx \in WindowBoxes(geocode, intervals) :
          /\ box' = bx
          /\ windows' = GetWindows(bx, intervals.x, intervals.y)
    /\ pc' = "windows"
    /\ UNCHANGED <<mode, geocode, ex, ey, precision, build, result,
                   intervals, splitVars, auxVars>>

WindowEncodeCall ==
    /\ mode = "windows"
    /\ pc = "windows"
    /\ \E pt \in WindowPoints(box, intervals) :
          /\ ex' = pt[1]
          /\ ey' = pt[2]
          /\ result' = Encode(geocode, pt[1], pt[2], precision, build)
    /\ pc' = "done"
    /\ UNCHANGED <<mode, geocode, precision, build, intervals, box, windows,
                   splitVars, auxVars>>

NextWindows == IntervalsCall \/ WindowsCall \/ WindowEncodeCall

SpecWindows == InitWindows /\ [][NextWindows]_vars

\* a window that lies inside the native bounds of g
WindowInBounds(g, w) ==
    LET b == GeocodeBounds(g)
    IN  FxLe(b[1], w[1]) /\ FxLe(w[2], b[2]) /\ FxLe(b[3], w[3])
            /\ FxLe(w[4], b[4])

StrictlyInsideWindow(x, y, w) ==
    FxLt(w[1], x) /\ FxLt(x, w[2]) /\ FxLt(w[3], y) /\ FxLt(y, w[4])

WindowCentre(w) == <<FxHalf(FxAdd(w[1], w[2])), FxHalf(FxAdd(w[3], w[4]))>>

CentreCode(g, w, p, bld) ==
    Encode(g, WindowCentre(w)[1], WindowCentre(w)[2], p, bld)

WindowsInBounds ==
    {windows[k] : k \in {i \in 1..Len(windows) :
                            WindowInBounds(geocode, windows[i])}}

\* C5: for each geocode and precision p >= 1, every window that get_windows
\* returns for the intervals get_intervals(p) and that lies inside the native
\* bounds is exactly one grid cell: a point strictly inside it is encoded to
\* the code of the window's centre (so any two such points have one code), the
\* cell the halving of encode ends in is the window itself, and the centres of
\* two different windows have different codes (so points strictly inside
\* different windows have different codes).
C5_WindowIsCell ==
    /\ (mode = "windows" /\ pc = "done") =>
          \A w \in WindowsInBounds :
              StrictlyInsideWindow(ex, ey, w) =>
                  /\ result.kind = "Ok"
                  /\ result.out = CentreCode(geocode, w, precision, build).out
                  /\ Len(result.out) = precision
                  /\ result.cell = w
    /\ (mode = "windows" /\ pc = "windows") =>
          \A w1, w2 \in WindowsInBounds :
              w1 # w2 => CentreCode(geocode, w1, precision, build).out
                            # CentreCode(geocode, w2, precision, build).out

C5_Witness ==
    /\ mode = "windows" /\ pc = "done" /\ geocode = "Geohash"
    /\ precision = 2
    /\ Cardinality(WindowsInBounds) = 4
    /\ \E w \in WindowsInBounds :
          /\ StrictlyInsideWindow(ex, ey, w)
          /\ <<ex, ey>> # WindowCentre(w)
          /\ result.kind = "Ok"

----------------------------------------------------------------------------
(* transform.rs: split.  Coordinates and geo-transform coefficients are    *)
(* integers; the quotients of split are rationals <<n, d>>, d > 0.          *)

Max(a, b) == IF a >= b THEN a ELSE b

Min(a, b) == IF a <= b THEN a ELSE b

\* a / b on rationals, b # 0
QDiv(a, b) ==
    IF b[1] > 0 THEN <<a[1] * b[2], a[2] * b[1]>>
    ELSE <<-(a[1] * b[2]), -(a[2] * b[1])>>

QSub(a, b) == <<(a[1] * b[2]) - (b[1] * a[2]), a[2] * b[2]>>

\* a cast that lands a pixel below the floor
QTrunc_Below(q) == (q[1] \div q[2]) - 1

\* a cast that rounds down instead
QTrunc_Floor(q) == q[1] \div q[2]

\* q as isize: the cast cuts toward zero
QTrunc(q) == IF q[1] >= 0 THEN q[1] \div q[2] ELSE -((-q[1]) \div q[2])

\* A transformer between two CRSs is the map v -> M.v + t, kept as
\* <<m11, m12, m21, m22, tx, ty>> with integer entries and det M # 0.
Det(ct) == (ct[1] * ct[4]) - (ct[2] * ct[3])

\* CoordTransform::transform_coords of the source-to-target transformer
Forward(ct, x, y) ==
    <<(ct[1] * x) + (ct[2] * y) + ct[5], (ct[3] * x) + (ct[4] * y) + ct[6]>>

\* the same of the target-to-source transformer (reverse_transform), on
\* rationals: M^-1.(v - t)
Reverse(ct, x, y) ==
    LET ux == QSub(x, <<ct[5], 1>>)
        uy == QSub(y, <<ct[6], 1>>)
        nx == QSub(<<ct[4] * ux[1], ux[2]>>, <<ct[2] * uy[1], uy[2]>>)
        ny == QSub(<<ct[1] * uy[1], uy[2]>>, <<ct[3] * ux[1], ux[2]>>)
    IN  <<QDiv(nx, <<Det(ct), 1>>), QDiv(ny, <<Det(ct), 1>>)>>

\* coordinate.rs lines 208-216: the geo-transform applied to pixel (x, y)
PixelToCoord(t, x, y) ==
    <<t[1] + (x * t[2]) + (y * t[3]), t[4] + (x * t[5]) + (y * t[6])>>

\* coordinate.rs lines 204-225: transform_pixels of one pixel
TransformPixel(t, ct, x, y) ==
    Forward(ct, PixelToCoord(t, x, y)[1], PixelToCoord(t, x, y)[2])

\* lines 111-118: (center_px, center_py) of the window
CenterPixel(t, ct, w) ==
    LET mid_cx == <<w[1] + w[2], 2>>
        mid_cy == <<w[3] + w[4], 2>>
        c == Reverse(ct, mid_cx, mid_cy)
    IN  <<QDiv(QSub(c[1], <<t[1], 1>>), <<t[2], 1>>),
          QDiv(QSub(c[2], <<t[4], 1>>), <<t[6], 1>>)>>

\* lines 133-146: the envelope (bound_min_cx, bound_max_cx, bound_min_cy,
\* bound_max_cy) of the pixel box
Envelope(t, ct, min_px, max_px, min_py, max_py) ==
    LET p0 == TransformPixel(t, ct, min_px, min_py)
        p1 == TransformPixel(t, ct, max_px, min_py)
        p2 == TransformPixel(t, ct, min_px, max_py)
        p3 == TransformPixel(t, ct, max_px, max_py)
    IN  <<Max(p0[1], p2[1]), Min(p1[1], p3[1]),
          Max(p2[2], p3[2]), Min(p0[2], p1[2])>>

\* the test with the last comparison of line 153, left commented out
Envelopes_Line153(b, w) ==
    b[1] <= w[1] /\ b[2] >= w[2] /\ b[3] <= w[3] /\ b[4] >= w[3]

\* lines 149-152: the bounding box envelopes the window
Envelopes(b, w) ==
    b[1] <= w[1] /\ b[2] >= w[2] /\ b[3] <= w[3] /\ b[4] >= w[4]

\* the side with the most slack: the differences taken the other way round
WidenIndex_MostSlack(b, w) ==
    LET bound_differences == <<w[1] - b[1], b[2] - w[2], w[3] - b[3], b[4] - w[4]>>
    IN  CHOOSE i \in 1..4 :
            /\ \A j \in 1..4 : bound_differences[j] <= bound_differences[i]
            /\ \A j \in 1..(i - 1) : bound_differences[j] < bound_differences[i]

\* the largest bound difference, the last on ties
WidenIndex_LastOnTies(b, w) ==
    LET bound_differences == <<b[1] - w[1], w[2] - b[2], b[3] - w[3], w[4] - b[4]>>
    IN  CHOOSE i \in 1..4 :
            /\ \A j \in 1..4 : bound_differences[j] <= bound_differences[i]
            /\ \A j \in (i + 1)..4 : bound_differences[j] < bound_differences[i]

\* lines 159-172: the index of the largest bound difference, the first on ties
WidenIndex(b, w) ==
    LET bound_differences == <<b[1] - w[1], w[2] - b[2], b[3] - w[3], w[4] - b[4]>>
    IN  CHOOSE i \in 1..4 :
            /\ \A j \in 1..4 : bound_differences[j] <= bound_differences[i]
            /\ \A j \in 1..(i - 1) : bound_differences[j] < bound_differences[i]

\* lines 192-194: the pixel boundaries do not fall within the image
SkipWindow(min_px, max_px, min_py, max_py, src_width, src_height) ==
    max_px < 0 \/ min_px >= src_width \/ max_py < 0 \/ min_py >= src_height

\* lines 199-200: src_x_offset, src_y_offset
SrcOffset(bound_min) == Max(bound_min, 0)

\* lines 202-205: buf_width, buf_height
BufSize(bound_min, bound_max, src_size) ==
    Min(bound_max, src_size) - Max(bound_min, 0)

\* the write offset as the distance of bound_min from 0, on either side
DstOffset_Magnitude(bound_min) == Max(0 - bound_min, bound_min)

\* the write offset with the subtraction dropped
DstOffset_NoFlip(bound_min) == Max(bound_min, 0)

\* lines 207-208: dst_x_offset, dst_y_offset
DstOffset(bound_min) == Max(0 - bound_min, 0)

\* the shift with the row terms of x and y exchanged
ShiftTransform_Exchanged(t, min_px, min_py) ==
    <<t[1] + (min_px * t[2]) + (min_py * t[6]), t[2], t[3],
      t[4] + (min_px * t[5]) + (min_py * t[3]), t[5], t[6]>>

\* lines 233-236: the geo-transform moved to pixel (min_px, min_py)
ShiftTransform(t, min_px, min_py) ==
    <<t[1] + (min_px * t[2]) + (min_py * t[3]), t[2], t[3],
      t[4] + (min_px * t[5]) + (min_py * t[6]), t[5], t[6]>>

\* init_dataset: a dataset of the given size and band count; no_data is <<>>
\* for None and <<v>> for Some(v).  With a no-data value every band carries
\* it and is filled with it, without one the pixels are the 0 of a fresh
\* in-memory raster.
InitDataset(width, height, count, no_data) ==
    [width |-> width, height |-> height, count |-> count,
     transform |-> <<0, 1, 0, 0, 0, 1>>, projection |-> "",
     no_data |-> no_data,
     pixels |-> [q \in (1..count) \X (0..(width - 1)) \X (0..(height - 1)) |->
                    IF no_data = <<>> THEN 0 ELSE no_data[1]]]

\* copy_raster: the block of the given size at src_off of a source band
\* written at dst_off of a destination band; a block with no pixels writes
\* nothing.  The destination band takes the source band's no-data value.
CopyRaster(src, src_band, src_off, size, dst, dst_band, dst_off) ==
    [dst EXCEPT !.no_data = src.no_data, !.pixels =
        [q \in DOMAIN dst.pixels |->
            IF /\ q[1] = dst_band
               /\ dst_off[1] <= q[2] /\ q[2] < dst_off[1] + size[1]
               /\ dst_off[2] <= q[3] /\ q[3] < dst_off[2] + size[2]
            THEN src.pixels[<<src_band, (q[2] - dst_off[1]) + src_off[1],
                              (q[3] - dst_off[2]) + src_off[2]>>]
            ELSE dst.pixels[q]]]

\* lines 242-249: the copy of bands 1..n
RECURSIVE CopyBands(_, _, _, _, _, _)
CopyBands(src, dst, n, src_off, size, dst_off) ==
    IF n = 0 THEN dst
    ELSE CopyRaster(src, n, src_off, size,
                    CopyBands(src, dst, n - 1, src_off, size, dst_off),
                    n, dst_off)

\* lines 198-251: the dataset split returns for the pixel box
Carve(src, min_px, max_px, min_py, max_py) ==
    LET src_off == <<SrcOffset(min_px), SrcOffset(min_py)>>
        size == <<BufSize(min_px, max_px, src.width),
                  BufSize(min_py, max_py, src.height)>>
        dst_off == <<DstOffset(min_px), DstOffset(min_py)>>
        fresh == InitDataset(max_px - min_px, max_py - min_py, src.count,
                             src.no_data)
        placed == [fresh EXCEPT
                      !.transform = ShiftTransform(src.transform, min_px, min_py),
                      !.projection = src.projection]
    IN  CopyBands(src, placed, src.count, src_off, size, dst_off)

----------------------------------------------------------------------------
(* split as a state machine: the seed, one action per pass of the growth   *)
(* loop, and the carving of the result.                                    *)

MaxSize == 2

MaxCoord == 2

MaxGrow == 9

WindowSizes == {1, 2}

\* geo-transforms (a, b, c, d, e, f): north-up, scaled and offset, sheared
\* in x, sheared in y, and with y not flipped
GeoTransforms ==
    { <<0, 1, 0, 0, 0, -1>>, <<-1, 2, 0, 1, 0, -2>>, <<0, 1, 1, 0, 0, -1>>,
      <<0, 1, 0, 0, 1, -1>>, <<0, 1, 0, 0, 0, 1>> }

\* transformers to the target CRS: the same CRS, a scaled and shifted one,
\* and one with the axes exchanged
Transformers ==
    { <<1, 0, 0, 1, 0, 0>>, <<2, 0, 0, 2, 1, -1>>, <<0, 1, 1, 0, 0, 0>> }

\* (band count, no-data value of band 1)
BandLayouts == { <<1, <<>>>>, <<2, <<-1>>>> }

\* a source whose pixels are all different, and different from its no-data
\* value and from 0
SourceDataset(width, height, t, layout) ==
    [width |-> width, height |-> height, count |-> layout[1],
     transform |-> t, projection |-> "EPSG:32613", no_data |-> layout[2],
     pixels |-> [q \in (1..layout[1]) \X (0..(width - 1)) \X (0..(height - 1)) |->
                    (100 * q[1]) + (10 * q[2]) + q[3]]]

InitSplit ==
    /\ mode = "split"
    /\ pc = "begin"
    /\ geocode \in {"Geohash"}
    /\ ex = FxInt(0)
    /\ ey = FxInt(0)
    /\ precision = 0
    /\ build = "release"
    /\ result = NoResult
    /\ intervals = NoIntervals
    /\ box = NoBox
    /\ windows = <<>>
    /\ \E width, height \in 1..MaxSize, t \in GeoTransforms, l \in BandLayouts :
           dataset = SourceDataset(width, height, t, l)
    /\ \E x0, y0 \in (-MaxCoord)..MaxCoord, wx, wy \in WindowSizes :
           win = <<x0, x0 + wx, y0, y0 + wy>>
    /\ coord_transform \in Transformers
    /\ bound_min_px = 0
    /\ bound_max_px = 0
    /\ bound_min_py = 0
    /\ bound_max_py = 0
    /\ bound_min_cx = 0
    /\ bound_max_cx = 0
    /\ bound_min_cy = 0
    /\ bound_max_cy = 0
    /\ iterations = 0
    /\ split_out = NoSplit
    /\ AuxIdle

\* lines 100-124: the pixel bounds seeded from the centre of the window
SplitBegin ==
    /\ mode = "split"
    /\ pc = "begin"
    /\ LET c == CenterPixel(dataset.transform, coord_transform, win)
       IN  /\ bound_min_px' = QTrunc(c[1])
           /\ bound_max_px' = QTrunc(c[1])
           /\ bound_min_py' = QTrunc(c[2])
           /\ bound_max_py' = QTrunc(c[2])
    /\ pc' = "loop"
    /\ UNCHANGED <<mode, auxVars, geoVars, dataset, win, coord_transform, cxVars,
                   iterations, split_out>>

\* lines 131-155: a pass of the loop that finds the window enveloped
SplitLoopBreak ==
    /\ mode = "split"
    /\ pc = "loop"
    /\ LET b == Envelope(dataset.transform, coord_transform,
                         bound_min_px, bound_max_px, bound_min_py, bound_max_py)
       IN  /\ Envelopes(b, win)
           /\ bound_min_cx' = b[1]
           /\ bound_max_cx' = b[2]
           /\ bound_min_cy' = b[3]
           /\ bound_max_cy' = b[4]
    /\ pc' = "exit"
    /\ UNCHANGED <<mode, auxVars, geoVars, dataset, win, coord_transform, pxVars,
                   iterations, split_out>>

\* lines 131-181: a pass of the loop that widens one bound by a pixel
SplitLoopGrow ==
    /\ mode = "split"
    /\ pc = "loop"
    /\ iterations < MaxGrow
    /\ LET b == Envelope(dataset.transform, coord_transform,
                         bound_min_px, bound_max_px, bound_min_py, bound_max_py)
           index == WidenIndex(b, win)
       IN  /\ ~Envelopes(b, win)
           /\ bound_min_cx' = b[1]
           /\ bound_max_cx' = b[2]
           /\ bound_min_cy' = b[3]
           /\ bound_max_cy' = b[4]
           /\ bound_min_px' = IF index = 1 THEN bound_min_px - 1 ELSE bound_min_px
           /\ bound_max_px' = IF index = 2 THEN bound_max_px + 1 ELSE bound_max_px
           /\ bound_max_py' = IF index = 3 THEN bound_max_py + 1 ELSE bound_max_py
           /\ bound_min_py' = IF index = 4 THEN bound_min_py - 1 ELSE bound_min_py
    /\ iterations' = iterations + 1
    /\ UNCHANGED <<mode, pc, auxVars, geoVars, dataset, win, coord_transform,
                   split_out>>

\* lines 192-251: None for a pixel box off the image, else the carved dataset
SplitFinish ==
    /\ mode = "split"
    /\ pc = "exit"
    /\ split_out' =
          IF SkipWindow(bound_min_px, bound_max_px, bound_min_py, bound_max_py,
                        dataset.width, dataset.height)
          THEN [kind |-> "None", dataset |-> NoDataset]
          ELSE [kind |-> "Some",
                dataset |-> Carve(dataset, bound_min_px, bound_max_px,
                                  bound_min_py, bound_max_py)]
    /\ pc' = "done"
    /\ UNCHANGED <<mode, auxVars, geoVars, dataset, win, coord_transform, pxVars,
                   cxVars, iterations>>

NextSplit == SplitBegin \/ SplitLoopBreak \/ SplitLoopGrow \/ SplitFinish

SpecSplit == InitSplit /\ [][NextSplit]_vars

----------------------------------------------------------------------------
(* Claims about split, checked under SpecSplit.                            *)

SplitDone == mode = "split" /\ pc = "done"

ReturnedDataset == SplitDone /\ split_out.kind = "Some"

\* the reprojected envelope of the whole pixel rectangle of dataset s
DatasetEnvelope(s) ==
    Envelope(s.transform, coord_transform, 0, s.width, 0, s.height)

\* C1: whenever split returns a dataset S, the conservative reprojected
\* envelope of S's pixel rectangle (the four corner pixels of S through S's
\* geo-transform and the forward transformer) contains the window:
\* bound_min_cx <= win_min_cx, bound_max_cx >= win_max_cx,
\* bound_min_cy <= win_min_cy and bound_max_cy >= win_max_cy.
C1_EnvelopeContainsWindow ==
    ReturnedDataset =>
        LET b == DatasetEnvelope(split_out.dataset)
        IN  /\ b[1] <= win[1]
            /\ b[2] >= win[2]
            /\ b[3] <= win[3]
            /\ b[4] >= win[4]

\* split returned a dataset after widening all four bounds, under a sheared
\* geo-transform and a transformer that is not the identity
C1_Witness ==
    /\ ReturnedDataset
    /\ dataset.transform[3] # 0
    /\ coord_transform # <<1, 0, 0, 1, 0, 0>>
    /\ iterations >= 4
    /\ split_out.dataset.width >= 2
    /\ split_out.dataset.height >= 2

\* the pixels the final rectangle [min_px, max_px) x [min_py, max_py) shares
\* with the source image [0, W) x [0, H)
Overlap ==
    { q \in (bound_min_px..(bound_max_px - 1)) \X (bound_min_py..(bound_max_py - 1)) :
        /\ 0 <= q[1] /\ q[1] < dataset.width
        /\ 0 <= q[2] /\ q[2] < dataset.height }

\* C2: split returns None if and only if the final pixel rectangle
\* [min_px, max_px) x [min_py, max_py) has zero overlap with the source
\* image [0, W) x [0, H); in every other case it returns a dataset.
C2_NoneIffNoOverlap ==
    SplitDone => (split_out.kind = "None" <=> Overlap = {})

\* C3: the dataset S split returns has width max_px - min_px and height
\* max_py - min_py, the source's band count and projection, and
\* geo-transform (a + min_px*b + min_py*c, b, c, d + min_px*e + min_py*f,
\* e, f); so pixel (i, j) of S has the world coordinate of pixel
\* (i + min_px, j + min_py) of the source.
C3_ShiftedTransform ==
    ReturnedDataset =>
        LET S == split_out.dataset
            T == dataset.transform
        IN  /\ S.width = bound_max_px - bound_min_px
            /\ S.height = bound_max_py - bound_min_py
            /\ S.count = dataset.count
            /\ S.projection = dataset.projection
            /\ S.transform[1] = T[1] + (bound_min_px * T[2]) + (bound_min_py * T[3])
            /\ S.transform[2] = T[2]
            /\ S.transform[3] = T[3]
            /\ S.transform[4] = T[4] + (bound_min_px * T[5]) + (bound_min_py * T[6])
            /\ S.transform[5] = T[5]
            /\ S.transform[6] = T[6]
            /\ \A i \in 0..S.width, j \in 0..S.height :
                   PixelToCoord(S.transform, i, j)
                       = PixelToCoord(T, i + bound_min_px, j + bound_min_py)

\* split returned a dataset whose origin moved on both axes, by different
\* amounts, under a geo-transform with a rotation term
C3_Witness ==
    /\ ReturnedDataset
    /\ bound_min_px # 0
    /\ bound_min_py # 0
    /\ bound_min_px # bound_min_py
    /\ dataset.transform[5] # 0
    /\ split_out.dataset.transform # dataset.transform

\* C4: in the dataset S returned from a source that has a no-data value,
\* for every band and every destination pixel (i, j): if the source pixel
\* (i + min_px, j + min_py) lies inside [0, W) x [0, H) then S's pixel
\* equals that source pixel, otherwise it equals the source's no-data value.
C4_CopiedOrNoData ==
    (ReturnedDataset /\ dataset.no_data # <<>>) =>
        LET S == split_out.dataset
        IN  /\ DOMAIN S.pixels =
                  (1..dataset.count) \X (0..(bound_max_px - bound_min_px - 1))
                                     \X (0..(bound_max_py - bound_min_py - 1))
            /\ \A q \in DOMAIN S.pixels :
                  LET x == q[2] + bound_min_px
                      y == q[3] + bound_min_py
                  IN  IF 0 <= x /\ x < dataset.width /\ 0 <= y /\ y < dataset.height
                      THEN S.pixels[q] = dataset.pixels[<<q[1], x, y>>]
                      ELSE S.pixels[q] = dataset.no_data[1]

\* split returned a dataset that holds both copied pixels and padding, with
\* the copied block away from the destination's origin on both axes
C4_Witness ==
    /\ ReturnedDataset
    /\ dataset.no_data # <<>>
    /\ bound_min_px < 0
    /\ bound_min_py < 0
    /\ bound_max_px > dataset.width
    /\ Overlap # {}
    /\ \E q \in DOMAIN split_out.dataset.pixels :
           split_out.dataset.pixels[q] = dataset.no_data[1]
    /\ \E q \in DOMAIN split_out.dataset.pixels :
           split_out.dataset.pixels[q] = dataset.pixels[<<2, 0, 0>>]

----------------------------------------------------------------------------
(* Geocode::get_intervals on its own, at precisions past the 32 bits of    *)
(* 2_u32.pow.                                                              *)

MaxIntervalPrecision == 33

InitIntervals ==
    /\ mode = "intervals"
    /\ pc = "call"
    /\ geocode \in Geocodes
    /\ precision \in 0..MaxIntervalPrecision
    /\ build \in Builds
    /\ ex = FxInt(0)
    /\ ey = FxInt(0)
    /\ result = NoResult
    /\ intervals = NoIntervals
    /\ box = NoBox
    /\ windows = <<>>
    /\ SplitIdle
    /\ AuxIdle

\* lines 95-120: one call of get_intervals
GetIntervalsCall ==
    /\ mode = "intervals"
    /\ pc = "call"
    /\ intervals' = GetIntervals(geocode, precision, build)
    /\ pc' = "done"
    /\ UNCHANGED <<mode, geocode, ex, ey, precision, build, result, box,
                   windows, splitVars, auxVars>>

NextIntervals == GetIntervalsCall

SpecIntervals == InitIntervals /\ [][NextIntervals]_vars

IntervalsDone == mode = "intervals" /\ pc = "done"

\* the full native span of g on x and on y
NativeSpan(g) ==
    IF g = "Geohash" THEN <<FxInt(360), FxInt(180)>>
    ELSE <<FxDec(1, 40075016, 685578496), FxDec(1, 40075016, 685578496)>>

\* ceil(p / 2), ceil(2.5 p) and floor(2.5 p)
CeilHalf(p) == (p \div 2) + (p % 2)

CeilFiveHalves(p) == ((5 * p) + 1) \div 2

FloorFiveHalves(p) == (5 * p) \div 2

\* the interval span / 2^bits is the decimal d: d * 2^bits = span
IsDecimal(span, bits, d) == FxMulInt(d, 2^bits) = span

\* C11: for every precision p in 1..12, Geohash.get_intervals(p) =
\* (360 / 2^(2p + ceil(p/2)), 180 / 2^(2p + floor(p/2))) = (360 / 2^ceil(2.5p),
\* 180 / 2^floor(2.5p)), x (longitude) first, and QuadTile.get_intervals(p) =
\* (40075016.685578496 / 2^p, 40075016.685578496 / 2^p); Geohash p = 5 gives
\* (0.0439453125, 0.0439453125) and p = 6 gives (0.010986328125,
\* 0.0054931640625).
C11_IntervalsFormula ==
    (IntervalsDone /\ precision \in 1..12) =>
        /\ intervals.kind = "Ok"
        /\ intervals.x_span = NativeSpan(geocode)[1]
        /\ intervals.y_span = NativeSpan(geocode)[2]
        /\ geocode = "Geohash" =>
              /\ intervals.x_bits = (2 * precision) + CeilHalf(precision)
              /\ intervals.y_bits = (2 * precision) + (precision \div 2)
              /\ intervals.x_bits = CeilFiveHalves(precision)
              /\ intervals.y_bits = FloorFiveHalves(precision)
        /\ geocode = "QuadTile" =>
              /\ intervals.x_bits = precision
              /\ intervals.y_bits = precision
        /\ (geocode = "Geohash" /\ precision = 5) =>
              /\ IsDecimal(intervals.x_span, intervals.x_bits,
                           <<0, 43945312, 500000000>>)
              /\ IsDecimal(intervals.y_span, intervals.y_bits,
                           <<0, 43945312, 500000000>>)
              /\ intervals.x = <<0, 43945312, 500000000>>
              /\ intervals.y = <<0, 43945312, 500000000>>
        /\ (geocode = "Geohash" /\ precision = 6) =>
              /\ IsDecimal(intervals.x_span, intervals.x_bits,
                           <<0, 10986328, 125000000>>)
              /\ IsDecimal(intervals.y_span, intervals.y_bits,
                           <<0, 5493164, 62500000>>)
              /\ intervals.x = <<0, 10986328, 125000000>>
              /\ intervals.y = <<0, 5493164, 62500000>>

\* get_intervals returned for Geohash at an odd precision, where the bits of
\* x and of y differ
C11_Witness ==
    /\ IntervalsDone
    /\ geocode = "Geohash"
    /\ precision = 11
    /\ intervals.kind = "Ok"
    /\ intervals.x_bits = 28
    /\ intervals.y_bits = 27

\* C12: for every precision p (any non-negative integer) and each geocode,
\* get_intervals(p) returns finite positive intervals that divide the full
\* native span exactly into 2^bits_x by 2^bits_y tiles, the power of two
\* computed in 32-bit unsigned arithmetic.
C12_IntervalsDivideSpan ==
    IntervalsDone =>
        /\ intervals.kind = "Ok"
        /\ intervals.x_span = NativeSpan(geocode)[1]
        /\ intervals.y_span = NativeSpan(geocode)[2]
        /\ intervals.x_bits < U32_BITS
        /\ intervals.y_bits < U32_BITS

----------------------------------------------------------------------------
(* coordinate.rs: Geocode::decode, applied to what encode returned.        *)

\* lines 26-29: Geocode::decode(value).  The body is unimplemented!(): the
\* call panics whatever the value.
Decode(g, value) == [kind |-> "Panic", cell |-> <<>>]

MaxDecodePrecision == 2

InitDecode ==
    /\ mode = "decode"
    /\ pc = "call"
    /\ geocode \in Geocodes
    /\ \E pt \in EncodePoints(geocode) : ex = pt[1] /\ ey = pt[2]
    /\ precision \in 0..MaxDecodePrecision
    /\ build \in Builds
    /\ result = NoResult
    /\ intervals = NoIntervals
    /\ box = NoBox
    /\ windows = <<>>
    /\ SplitIdle
    /\ AuxIdle

\* lines 31-86: the encode call of the round trip
DecodeEncodeCall ==
    /\ mode = "decode"
    /\ pc = "call"
    /\ result' = Encode(geocode, ex, ey, precision, build)
    /\ pc' = IF result'.kind = "Ok" THEN "encoded" ELSE "failed"
    /\ UNCHANGED <<mode, geocode, ex, ey, precision, build, intervals, box,
                   windows, splitVars, auxVars>>

\* lines 26-29: decode of the string encode returned
DecodeCall ==
    /\ mode = "decode"
    /\ pc = "encoded"
    /\ decoded' = Decode(geocode, result.out)
    /\ pc' = "done"
    /\ UNCHANGED <<mode, geoVars, splitVars, serVars, ct_error, bounds_out, mergeVars>>

NextDecode == DecodeEncodeCall \/ DecodeCall

SpecDecode == InitDecode /\ [][NextDecode]_vars

\* the point lies strictly inside the cell encode ended in
StrictlyInsideCell ==
    /\ result.kind = "Ok"
    /\ StrictlyInsideWindow(ex, ey, result.cell)

\* C13: for every geocode, precision p and point (x, y) strictly interior to
\* a cell, decode(encode(x, y, p)) returns Ok((min_x, max_x, min_y, max_y))
\* with min_x <= x <= max_x and min_y <= y <= max_y, the rectangle being the
\* cell of encode.
C13_DecodeRoundTrip ==
    (mode = "decode" /\ pc = "done" /\ StrictlyInsideCell) =>
        /\ decoded.kind = "Ok"
        /\ decoded.cell = result.cell
        /\ FxLe(decoded.cell[1], ex) /\ FxLe(ex, decoded.cell[2])
        /\ FxLe(decoded.cell[3], ey) /\ FxLe(ey, decoded.cell[4])

----------------------------------------------------------------------------
(* coordinate.rs: get_windows on boxes and intervals of its caller's       *)
(* choosing.  Coordinates are halves, intervals 1 and 3/4.                 *)

MaxGridCoord == 2

\* lengths of a side of the box, in halves; -1 and 0 give an empty range
GridLengths == {-1, 0, 1, 3, 6}

GridIntervals == {FxInt(1), FxHalfN(FxInt(3), 2)}

\* (min, max) of one axis of the box
GridAxis ==
    {<<FxHalf(FxInt(k)), FxHalf(FxInt(k + l))>> :
        k \in (-2 * MaxGridCoord)..(2 * MaxGridCoord), l \in GridLengths}

InitGrid ==
    /\ mode = "grid"
    /\ pc = "call"
    /\ geocode \in {"Geohash"}
    /\ ex = FxInt(0)
    /\ ey = FxInt(0)
    /\ precision = 0
    /\ build = "release"
    /\ result = NoResult
    /\ \E dx, dy \in GridIntervals :
           intervals = [NoIntervals EXCEPT !.kind = "Ok", !.x = dx, !.y = dy]
    /\ \E ax, ay \in GridAxis : box = <<ax[1], ax[2], ay[1], ay[2]>>
    /\ windows = <<>>
    /\ SplitIdle
    /\ AuxIdle

\* lines 160-191: one call of get_windows
GetWindowsCall ==
    /\ mode = "grid"
    /\ pc = "call"
    /\ windows' = GetWindows(box, intervals.x, intervals.y)
    /\ pc' = "done"
    /\ UNCHANGED <<mode, geocode, ex, ey, precision, build, result,
                   intervals, box, splitVars, auxVars>>

NextGrid == GetWindowsCall

SpecGrid == InitGrid /\ [][NextGrid]_vars

GridDone == mode = "grid" /\ pc = "done"

\* the indices a coordinate of the boxes examined can have
GridIndices == (-2 * (MaxGridCoord + 1))..((2 * (MaxGridCoord + 3)) + 1)

\* floor(a / d) and ceil(a / d) for d > 0, by their defining inequalities
FloorIndex(a, d) ==
    CHOOSE i \in GridIndices :
        FxLe(FxMulInt(d, i), a) /\ FxLt(a, FxMulInt(d, i + 1))

CeilIndex(a, d) ==
    CHOOSE i \in GridIndices :
        FxLt(FxMulInt(d, i - 1), a) /\ FxLe(a, FxMulInt(d, i))

\* the square (i*dx, (i+1)*dx, j*dy, (j+1)*dy)
GridCell(i, j, dx, dy) ==
    <<FxMulInt(dx, i), FxMulInt(dx, i + 1), FxMulInt(dy, j), FxMulInt(dy, j + 1)>>

\* the index ranges of the box on x and on y: <<i0, i1, j0, j1>> for
\* i0 <= i < i1 and j0 <= j < j1
GridRanges ==
    {<<FloorIndex(box[1], intervals.x), CeilIndex(box[2], intervals.x),
       FloorIndex(box[3], intervals.y), CeilIndex(box[4], intervals.y)>>}

RangeSize(lo, hi) == IF hi > lo THEN hi - lo ELSE 0

\* C14: get_windows returns exactly one window (i*dx, (i+1)*dx, j*dy,
\* (j+1)*dy) for each integer pair with floor(min_cx/dx) <= i <
\* ceil(max_cx/dx) and floor(min_cy/dy) <= j < ceil(max_cy/dy), no other
\* window and no duplicate, in x-major then y order, the same on every call;
\* get_windows(0, 3, 0, 3, 1, 1) is the nine unit squares with integer
\* corners.
C14_WindowsEnumerated ==
    GridDone =>
        \A r \in GridRanges, dx \in {intervals.x}, dy \in {intervals.y} :
            \A cells \in {[q \in (r[1]..(r[2] - 1)) \X (r[3]..(r[4] - 1)) |->
                             GridCell(q[1], q[2], dx, dy)]} :
                /\ Len(windows) = RangeSize(r[1], r[2]) * RangeSize(r[3], r[4])
                /\ \A q \in DOMAIN cells :
                       windows[((q[1] - r[1]) * RangeSize(r[3], r[4]))
                                   + (q[2] - r[3]) + 1] = cells[q]
                /\ \A k \in 1..Len(windows) :
                       \E q \in DOMAIN cells : windows[k] = cells[q]
                /\ \A k1, k2 \in 1..Len(windows) :
                       k1 # k2 => windows[k1] # windows[k2]
                /\ windows = GetWindows(box, dx, dy)
                /\ (box = <<FxInt(0), FxInt(3), FxInt(0), FxInt(3)>>
                      /\ dx = FxInt(1) /\ dy = FxInt(1)) =>
                       /\ Len(windows) = 9
                       /\ {windows[k] : k \in 1..9} =
                             {<<FxInt(i), FxInt(i + 1), FxInt(j), FxInt(j + 1)>> :
                                 i \in 0..2, j \in 0..2}

\* get_windows returned several columns and rows for a box off the grid,
\* with different intervals on x and y
C14_Witness ==
    /\ GridDone
    /\ intervals.x # intervals.y
    /\ \E r \in GridRanges :
          /\ r[2] - r[1] >= 3
          /\ r[4] - r[3] >= 2
          /\ r[2] - r[1] # r[4] - r[3]
    /\ windows[1][1] # box[1]
    /\ FxLt(box[1], FxInt(0))

\* a coordinate of the grid examined, in quarters (it is a whole number of
\* them)
Quarters(v) == FxMulInt(v, 4)[1]

\* the area of a rectangle, in sixteenths
Area(w) == (Quarters(w[2]) - Quarters(w[1])) * (Quarters(w[4]) - Quarters(w[3]))

RECURSIVE SumArea(_, _)
SumArea(ws, n) == IF n = 0 THEN 0 ELSE SumArea(ws, n - 1) + Area(ws[n])

\* the interiors of two rectangles do not meet
InteriorsDisjoint(w1, w2) ==
    \/ FxLe(w1[2], w2[1]) \/ FxLe(w2[2], w1[1])
    \/ FxLe(w1[4], w2[3]) \/ FxLe(w2[4], w1[3])

\* rectangle w lies in rectangle r
Within(w, r) ==
    FxLe(r[1], w[1]) /\ FxLe(w[2], r[2]) /\ FxLe(r[3], w[3]) /\ FxLe(w[4], r[4])

\* C15: for a box with min < max on both axes and positive intervals, two
\* distinct windows of get_windows have no interior point in common, and the
\* union of the windows is exactly the rectangle [floor(min_cx/dx)*dx,
\* ceil(max_cx/dx)*dx] x [floor(min_cy/dy)*dy, ceil(max_cy/dy)*dy] (every
\* window lies in it and the areas add up to its area), which contains the
\* box.
C15_WindowsTile ==
    (GridDone /\ FxLt(box[1], box[2]) /\ FxLt(box[3], box[4])) =>
        \A r \in GridRanges :
            \A rect \in {<<FxMulInt(intervals.x, r[1]), FxMulInt(intervals.x, r[2]),
                           FxMulInt(intervals.y, r[3]), FxMulInt(intervals.y, r[4])>>} :
                /\ \A k1, k2 \in 1..Len(windows) :
                       k1 # k2 => InteriorsDisjoint(windows[k1], windows[k2])
                /\ \A k \in 1..Len(windows) :
                       /\ Within(windows[k], rect)
                       /\ FxLt(windows[k][1], windows[k][2])
                       /\ FxLt(windows[k][3], windows[k][4])
                /\ SumArea(windows, Len(windows)) = Area(rect)
                /\ Within(box, rect)

\* get_windows returned several windows for a box whose four sides are all
\* off the grid
C15_Witness ==
    /\ GridDone
    /\ FxLt(box[1], box[2]) /\ FxLt(box[3], box[4])
    /\ Len(windows) >= 6
    /\ intervals.x = FxHalfN(FxInt(3), 2)
    /\ \A k \in 1..Len(windows) :
          /\ windows[k][1] # box[1] /\ windows[k][2] # box[2]
          /\ windows[k][3] # box[3] /\ windows[k][4] # box[4]

----------------------------------------------------------------------------
(* coordinate.rs: get_bounds.                                              *)

\* the corner pixels with the last pixel in place of the size
CornerPixels_LastPixel(src_width, src_height) ==
    <<<<0, 0>>, <<src_width - 1, 0>>, <<0, src_height - 1>>,
      <<src_width - 1, src_height - 1>>>>

\* lines 142-148: corner_pixels
CornerPixels(src_width, src_height) ==
    <<<<0, 0>>, <<src_width, 0>>, <<0, src_height>>, <<src_width, src_height>>>>

\* lines 153, 155: fold(1./0., f64::min) over the first n of xs, n >= 1
RECURSIVE FoldMin(_, _)
FoldMin(xs, n) == IF n = 1 THEN xs[1] ELSE Min(FoldMin(xs, n - 1), xs[n])

\* lines 154, 156: fold(f64::NAN, f64::max) over the first n of xs, n >= 1
RECURSIVE FoldMax(_, _)
FoldMax(xs, n) == IF n = 1 THEN xs[1] ELSE Max(FoldMax(xs, n - 1), xs[n])

\* lines 123-158: get_bounds(dataset, epsg_code).  err names the library
\* call that fails: CoordTransform::new (line 137) or transform_coords
\* (line 150, in transform_pixels); both are returned by `?`.
GetBounds(ds, ct, err) ==
    IF err # "none" THEN [kind |-> "Err", box |-> <<>>]
    ELSE LET corner_pixels == CornerPixels(ds.width, ds.height)
             cs == [k \in 1..4 |-> TransformPixel(ds.transform, ct,
                                       corner_pixels[k][1], corner_pixels[k][2])]
             xs == [k \in 1..4 |-> cs[k][1]]
             ys == [k \in 1..4 |-> cs[k][2]]
         IN  [kind |-> "Ok",
              box |-> <<FoldMin(xs, 4), FoldMax(xs, 4), FoldMin(ys, 4),
                        FoldMax(ys, 4)>>]

\* the transformers of split and one that turns and stretches
BoundsTransformers == Transformers \cup { <<1, 1, -1, 1, 3, -2>> }

InitBounds ==
    /\ mode = "bounds"
    /\ pc = "call"
    /\ geocode \in {"Geohash"}
    /\ ex = FxInt(0)
    /\ ey = FxInt(0)
    /\ precision = 0
    /\ build = "release"
    /\ result = NoResult
    /\ intervals = NoIntervals
    /\ box = NoBox
    /\ windows = <<>>
    /\ \E width, height \in 1..MaxSize, t \in GeoTransforms :
           dataset = SourceDataset(width, height, t, <<1, <<>>>>)
    /\ win = <<0, 0, 0, 0>>
    /\ coord_transform \in BoundsTransformers
    /\ bound_min_px = 0 /\ bound_max_px = 0
    /\ bound_min_py = 0 /\ bound_max_py = 0
    /\ bound_min_cx = 0 /\ bound_max_cx = 0
    /\ bound_min_cy = 0 /\ bound_max_cy = 0
    /\ iterations = 0
    /\ split_out = NoSplit
    /\ decoded = NoDecoded
    /\ ct_error \in {"none", "new", "transform"}
    /\ SerIdle
    /\ bounds_out = NoBounds
    /\ MergeIdle

\* lines 123-158: one call of get_bounds
GetBoundsCall ==
    /\ mode = "bounds"
    /\ pc = "call"
    /\ bounds_out' = GetBounds(dataset, coord_transform, ct_error)
    /\ pc' = "done"
    /\ UNCHANGED <<mode, geoVars, splitVars, decoded, serVars, ct_error, mergeVars>>

NextBounds == GetBoundsCall

SpecBounds == InitBounds /\ [][NextBounds]_vars

BoundsDone == mode = "bounds" /\ pc = "done"

\* pixel (px, py) through the geo-transform (a, b, c, d, e, f) and then the
\* transformer v -> M.v + t
CornerCoord(px, py) ==
    LET T == dataset.transform
        m == coord_transform
        x == T[1] + (px * T[2]) + (py * T[3])
        y == T[4] + (px * T[5]) + (py * T[6])
    IN  <<(m[1] * x) + (m[2] * y) + m[5], (m[3] * x) + (m[4] * y) + m[6]>>

\* the four corners (0,0), (W,0), (0,H), (W,H) in the target CRS
CornerCoords ==
    {CornerCoord(px, py) : px \in {0, dataset.width}, py \in {0, dataset.height}}

\* C16: get_bounds returns (min_cx, max_cx, min_cy, max_cy), the minimum and
\* maximum x and y over exactly the four corner pixels (0,0), (W,0), (0,H),
\* (W,H), each through the geo-transform and then the transformer; so
\* min_cx <= max_cx, min_cy <= max_cy and every transformed corner lies in
\* the box; if the transformer cannot be built or fails, an error is
\* returned and no bounds.
C16_BoundsOfCorners ==
    BoundsDone =>
        IF ct_error # "none"
        THEN bounds_out.kind = "Err" /\ bounds_out.box = <<>>
        ELSE /\ bounds_out.kind = "Ok"
             /\ \A b \in {bounds_out.box} :
                   /\ \E c \in CornerCoords : b[1] = c[1]
                   /\ \E c \in CornerCoords : b[2] = c[1]
                   /\ \E c \in CornerCoords : b[3] = c[2]
                   /\ \E c \in CornerCoords : b[4] = c[2]
                   /\ \A c \in CornerCoords :
                         /\ b[1] <= c[1] /\ c[1] <= b[2]
                         /\ b[3] <= c[2] /\ c[2] <= b[4]
                   /\ b[1] <= b[2]
                   /\ b[3] <= b[4]

\* get_bounds returned the box of a scaled and offset raster under the
\* turning transformer; its least x is not that of pixel (0, 0)
C16_Witness ==
    /\ BoundsDone
    /\ bounds_out.kind = "Ok"
    /\ coord_transform = <<1, 1, -1, 1, 3, -2>>
    /\ dataset.transform[2] = 2
    /\ dataset.width # dataset.height
    /\ bounds_out.box[1] < CornerCoord(0, 0)[1]
    /\ bounds_out.box[1] < bounds_out.box[2]

----------------------------------------------------------------------------
(* transform.rs: merge.                                                    *)

\* the upper edge of the footprint taken from the lower row
ImageBounds_LowerRow(ds) ==
    LET T == ds.transform
    IN  <<T[1], T[1] + (ds.width * T[2]) + (ds.height * T[3]),
          T[4] + (ds.width * T[5]) + (ds.height * T[6]),
          T[4] + (ds.width * T[5]) + (ds.height * T[6])>>

\* lines 19-28: (image_min_cx, image_max_cx, image_min_cy, image_max_cy)
ImageBounds(ds) ==
    LET T == ds.transform
    IN  <<T[1], T[1] + (ds.width * T[2]) + (ds.height * T[3]),
          T[4] + (ds.width * T[5]) + (ds.height * T[6]), T[4]>>

\* lines 11-34: (min_cx, max_cx, min_cy, max_cy) over the first n datasets,
\* n >= 1; the folds start at f64::MAX and f64::MIN
RECURSIVE UnionBounds(_, _)
UnionBounds(datasets, n) ==
    LET b == ImageBounds(datasets[n])
    IN  IF n = 1 THEN b
        ELSE LET u == UnionBounds(datasets, n - 1)
             IN  <<Min(u[1], b[1]), Max(u[2], b[2]), Min(u[3], b[3]),
                   Max(u[4], b[4])>>

\* lines 40-48: (dst_width, dst_height)
MergeSize(u, T) ==
    LET min_px == QDiv(<<u[1] - T[1], 1>>, <<T[2], 1>>)
        max_px == QDiv(<<u[2] - T[1], 1>>, <<T[2], 1>>)
        min_py == QDiv(<<-(u[3] - T[4]), 1>>, <<T[6], 1>>)
        max_py == QDiv(<<-(u[4] - T[4]), 1>>, <<T[6], 1>>)
    IN  <<QTrunc(QSub(max_px, min_px)), QTrunc(QSub(max_py, min_py))>>

\* the write offset with the origins subtracted the other way round
MergeOffset_Reversed(ds, merge_transform) ==
    <<QTrunc(QDiv(<<merge_transform[1] - ds.transform[1], 1>>,
                  <<merge_transform[2], 1>>)),
      QTrunc(QDiv(<<merge_transform[4] - ds.transform[4], 1>>,
                  <<merge_transform[6], 1>>))>>

\* lines 79-82: (dst_x_offset, dst_y_offset) of a dataset
MergeOffset(ds, merge_transform) ==
    <<QTrunc(QDiv(<<ds.transform[1] - merge_transform[1], 1>>,
                  <<merge_transform[2], 1>>)),
      QTrunc(QDiv(<<ds.transform[4] - merge_transform[4], 1>>,
                  <<merge_transform[6], 1>>))>>

\* the block of ds at offset off lies in the raster of dst, and dst has the
\* bands of ds: what the raster library requires of a write
BlockFits(ds, off, dst) ==
    /\ 0 <= off[1] /\ off[1] + ds.width <= dst.width
    /\ 0 <= off[2] /\ off[2] + ds.height <= dst.height
    /\ ds.count <= dst.count

\* lines 85-91: the copy of every band of ds
MergeCopy(ds, dst) ==
    CopyBands(ds, dst, ds.count, <<0, 0>>, <<ds.width, ds.height>>,
              MergeOffset(ds, dst.transform))

\* the copies of the last n datasets, the last of the list first
RECURSIVE MergeCopies_FirstWins(_, _, _)
MergeCopies_FirstWins(datasets, dst, n) ==
    IF n = 0 THEN dst
    ELSE MergeCopy(datasets[(Len(datasets) - n) + 1],
                   MergeCopies_FirstWins(datasets, dst, n - 1))

\* lines 73-92: the copies of the first n datasets, in list order
RECURSIVE MergeCopies(_, _, _)
MergeCopies(datasets, dst, n) ==
    IF n = 0 THEN dst
    ELSE MergeCopy(datasets[n], MergeCopies(datasets, dst, n - 1))

\* lines 6-95: merge(datasets).  An empty list panics at datasets[0] (line
\* 40); a size the raster library cannot allocate, or a block it cannot
\* write, is an error.
Merge(datasets) ==
    IF Len(datasets) = 0 THEN [kind |-> "Panic", dataset |-> NoDataset]
    ELSE LET u == UnionBounds(datasets, Len(datasets))
             first == datasets[1]
             size == MergeSize(u, first.transform)
             merge_transform == [first.transform EXCEPT ![1] = u[1], ![4] = u[4]]
         IN  IF size[1] < 1 \/ size[2] < 1
             THEN [kind |-> "Err", dataset |-> NoDataset]
             ELSE LET fresh == InitDataset(size[1], size[2], first.count,
                                           first.no_data)
                      placed == [fresh EXCEPT !.transform = merge_transform,
                                              !.projection = first.projection]
                  IN  IF \A k \in 1..Len(datasets) :
                             BlockFits(datasets[k],
                                       MergeOffset(datasets[k], merge_transform),
                                       placed)
                      THEN [kind |-> "Ok",
                            dataset |-> MergeCopies(datasets, placed, Len(datasets))]
                      ELSE [kind |-> "Err", dataset |-> NoDataset]

----------------------------------------------------------------------------
(* merge on lists of its caller's choosing: none, one or two datasets that *)
(* share the projection, the pixel size and the band layout.               *)

\* (b, f) of the shared geo-transform; c = e = 0
MergeScales == { <<1, -1>>, <<2, -2>>, <<1, -2>> }

\* origins a and d of a dataset; with b = 2 the odd ones are off the pixel
\* grid of the others
MergeOrigins == {-1, 0, 2}

\* the k-th dataset of a list: pixels differ from dataset to dataset; the
\* first pixel of the second dataset is a no-data pixel where the layout has
\* a no-data value
MergeTile(k, a, d, width, height, scale, layout) ==
    LET ds == SourceDataset(width, height, <<a, scale[1], 0, d, 0, scale[2]>>,
                            layout)
    IN  [ds EXCEPT !.pixels = [q \in DOMAIN ds.pixels |->
                                  IF k = 2 /\ q = <<1, 0, 0>> /\ layout[2] # <<>>
                                  THEN layout[2][1]
                                  ELSE ds.pixels[q] + (1000 * k)]]

\* the datasets a list is drawn from, as its k-th element
MergeTiles(k, scale, layout) ==
    {MergeTile(k, a, d, width, height, scale, layout) :
        a \in MergeOrigins, d \in MergeOrigins,
        width \in 1..MaxSize, height \in 1..MaxSize}

InitMerge ==
    /\ mode = "merge"
    /\ pc = "call"
    /\ geocode \in {"Geohash"}
    /\ ex = FxInt(0)
    /\ ey = FxInt(0)
    /\ precision = 0
    /\ build = "release"
    /\ result = NoResult
    /\ intervals = NoIntervals
    /\ box = NoBox
    /\ windows = <<>>
    /\ SplitIdle
    /\ decoded = NoDecoded
    /\ ct_error = "none"
    /\ SerIdle
    /\ bounds_out = NoBounds
    /\ \E scale \in MergeScales, layout \in BandLayouts :
          \/ tiles = <<>>
          \/ \E t1 \in MergeTiles(1, scale, layout) : tiles = <<t1>>
          \/ \E t1 \in MergeTiles(1, scale, layout),
                t2 \in MergeTiles(2, scale, layout) : tiles = <<t1, t2>>
    /\ next_window = 0
    /\ merge_out = NoMerge

\* lines 6-95: one call of merge
MergeCall ==
    /\ mode = "merge"
    /\ pc = "call"
    /\ merge_out' = Merge(tiles)
    /\ pc' = "done"
    /\ UNCHANGED <<mode, geoVars, splitVars, decoded, serVars, ct_error, bounds_out,
                   tiles, next_window>>

NextMerge == MergeCall

SpecMerge == InitMerge /\ [][NextMerge]_vars

MergeDone == mode = "merge" /\ pc = "done"

\* the footprint [a, a + W*b] x [d + H*f, d] of a dataset
Footprint(ds) ==
    <<ds.transform[1], ds.transform[1] + (ds.width * ds.transform[2]),
      ds.transform[4] + (ds.height * ds.transform[6]), ds.transform[4]>>

\* least and greatest of a non-empty finite set of integers
Least(S) == CHOOSE v \in S : \A u \in S : v <= u

Greatest(S) == CHOOSE v \in S : \A u \in S : u <= v

\* n is q in whole pixels: the whole part of num / den, for num >= 0, den > 0
WholePixels(n, num, den) == n * den <= num /\ num < (n + 1) * den

\* C18: for a non-empty list of datasets sharing projection and (b, c, e, f)
\* with b > 0, f < 0, c = e = 0, merge returns a dataset with geo-transform
\* (min a_i, b, c, max d_i, e, f), the projection of the first input, and
\* width and height the whole pixels of (max_cx - min_cx)/b and
\* (max_cy - min_cy)/(-f), min and max over the footprints of the inputs;
\* the block of every input, placed at the offset (whole pixels of)
\* ((a_i - min_cx)/b, (d_i - max_cy)/f), lies inside the output raster.
C18_MergeExtent ==
    (MergeDone /\ Len(tiles) >= 1) =>
        \A S \in {merge_out.dataset}, b \in {tiles[1].transform[2]},
           f \in {tiles[1].transform[6]},
           min_cx \in {Least({Footprint(tiles[k])[1] : k \in 1..Len(tiles)})},
           max_cx \in {Greatest({Footprint(tiles[k])[2] : k \in 1..Len(tiles)})},
           min_cy \in {Least({Footprint(tiles[k])[3] : k \in 1..Len(tiles)})},
           max_cy \in {Greatest({Footprint(tiles[k])[4] : k \in 1..Len(tiles)})} :
            /\ merge_out.kind = "Ok"
            /\ S.transform = <<Least({tiles[k].transform[1] : k \in 1..Len(tiles)}),
                               b, 0,
                               Greatest({tiles[k].transform[4] : k \in 1..Len(tiles)}),
                               0, f>>
            /\ S.projection = tiles[1].projection
            /\ WholePixels(S.width, max_cx - min_cx, b)
            /\ WholePixels(S.height, max_cy - min_cy, -f)
            /\ \A k \in 1..Len(tiles) :
                   \E ox \in 0..S.width, oy \in 0..S.height :
                       /\ WholePixels(ox, tiles[k].transform[1] - min_cx, b)
                       /\ WholePixels(oy, max_cy - tiles[k].transform[4], -f)
                       /\ ox + tiles[k].width <= S.width
                       /\ oy + tiles[k].height <= S.height
                       /\ \A q \in (1..tiles[k].count) \X {0, tiles[k].width - 1}
                                      \X {0, tiles[k].height - 1} :
                              <<q[1], ox + q[2], oy + q[3]>> \in DOMAIN S.pixels

\* merge returned the union of two datasets that lie apart on both axes,
\* neither at the corner of the other
C18_Witness ==
    /\ MergeDone
    /\ Len(tiles) = 2
    /\ merge_out.kind = "Ok"
    /\ tiles[1].transform[1] > tiles[2].transform[1]
    /\ tiles[1].transform[4] < tiles[2].transform[4]
    /\ merge_out.dataset.width > tiles[1].width + tiles[2].width
    /\ merge_out.dataset.transform # tiles[1].transform

----------------------------------------------------------------------------
(* The round trip of a caller: get_bounds, get_windows, split for every    *)
(* window, merge of the datasets returned.                                 *)

\* lines 131-181: the loop of split from pixel box b, at most fuel passes
\* that widen
RECURSIVE GrowBox(_, _, _, _, _)
GrowBox(t, ct, w, b, fuel) ==
    LET env == Envelope(t, ct, b[1], b[2], b[3], b[4])
        index == WidenIndex(env, w)
    IN  IF Envelopes(env, w) THEN [kind |-> "Exit", box |-> b]
        ELSE IF fuel = 0 THEN [kind |-> "Loops", box |-> b]
        ELSE GrowBox(t, ct, w,
                     <<IF index = 1 THEN b[1] - 1 ELSE b[1],
                       IF index = 2 THEN b[2] + 1 ELSE b[2],
                       IF index = 4 THEN b[3] - 1 ELSE b[3],
                       IF index = 3 THEN b[4] + 1 ELSE b[4]>>,
                     fuel - 1)

\* lines 97-252: split(dataset, min_cx, max_cx, min_cy, max_cy, epsg_code) as
\* one step; b is (min_px, max_px, min_py, max_py)
Split(ds, ct, w) ==
    LET c == CenterPixel(ds.transform, ct, w)
        seed == <<QTrunc(c[1]), QTrunc(c[1]), QTrunc(c[2]), QTrunc(c[2])>>
        g == GrowBox(ds.transform, ct, w, seed, MaxGrow)
        b == g.box
    IN  IF g.kind = "Loops" THEN [kind |-> "Loops", dataset |-> NoDataset]
        ELSE IF SkipWindow(b[1], b[2], b[3], b[4], ds.width, ds.height)
        THEN [kind |-> "None", dataset |-> NoDataset]
        ELSE [kind |-> "Some", dataset |-> Carve(ds, b[1], b[2], b[3], b[4])]

\* geo-transforms that only scale (c = e = 0, b > 0, f < 0)
ScalingTransforms == { <<0, 1, 0, 0, 0, -1>>, <<-1, 2, 0, 1, 0, -2>> }

\* transformers that keep the axes
AxisTransformers == { <<1, 0, 0, 1, 0, 0>>, <<2, 0, 0, 2, 1, -1>> }

\* the intervals handed to get_windows
TripIntervals == {FxInt(1), FxInt(2), FxInt(3)}

InitTrip ==
    /\ mode = "trip"
    /\ pc = "call"
    /\ geocode \in {"Geohash"}
    /\ ex = FxInt(0)
    /\ ey = FxInt(0)
    /\ precision = 0
    /\ build = "release"
    /\ result = NoResult
    /\ \E dx, dy \in TripIntervals :
           intervals = [NoIntervals EXCEPT !.kind = "Ok", !.x = dx, !.y = dy]
    /\ box = NoBox
    /\ windows = <<>>
    /\ \E width, height \in 1..MaxSize, t \in ScalingTransforms,
          l \in BandLayouts :
           dataset = SourceDataset(width, height, t, l)
    /\ win = <<0, 0, 0, 0>>
    /\ coord_transform \in AxisTransformers
    /\ bound_min_px = 0 /\ bound_max_px = 0
    /\ bound_min_py = 0 /\ bound_max_py = 0
    /\ bound_min_cx = 0 /\ bound_max_cx = 0
    /\ bound_min_cy = 0 /\ bound_max_cy = 0
    /\ iterations = 0
    /\ split_out = NoSplit
    /\ AuxIdle

\* coordinate.rs lines 123-158: get_bounds of the dataset
TripBounds ==
    /\ mode = "trip"
    /\ pc = "call"
    /\ bounds_out' = GetBounds(dataset, coord_transform, ct_error)
    /\ pc' = "bounds"
    /\ UNCHANGED <<mode, geoVars, splitVars, decoded, serVars, ct_error, mergeVars>>

\* coordinate.rs lines 160-191: get_windows of the bounds
TripWindows ==
    /\ mode = "trip"
    /\ pc = "bounds"
    /\ box' = <<FxInt(bounds_out.box[1]), FxInt(bounds_out.box[2]),
                FxInt(bounds_out.box[3]), FxInt(bounds_out.box[4])>>
    /\ windows' = GetWindows(box', intervals.x, intervals.y)
    /\ next_window' = 1
    /\ pc' = "split"
    /\ UNCHANGED <<mode, geocode, ex, ey, precision, build, result, intervals,
                   splitVars, decoded, serVars, ct_error, bounds_out, tiles, merge_out>>

\* transform.rs lines 97-252: split along the next window; a None is dropped
TripSplit ==
    /\ mode = "trip"
    /\ pc = "split"
    /\ next_window <= Len(windows)
    /\ LET w == windows[next_window]
           r == Split(dataset, coord_transform,
                      <<w[1][1], w[2][1], w[3][1], w[4][1]>>)
       IN  /\ split_out' = r
           /\ tiles' = IF r.kind = "Some" THEN Append(tiles, r.dataset) ELSE tiles
           /\ pc' = IF r.kind = "Loops" THEN "loops" ELSE "split"
    /\ next_window' = next_window + 1
    /\ UNCHANGED <<mode, geoVars, dataset, win, coord_transform, pxVars,
                   cxVars, iterations, decoded, serVars, ct_error, bounds_out,
                   merge_out>>

\* transform.rs lines 6-95: merge of the datasets split returned
TripMerge ==
    /\ mode = "trip"
    /\ pc = "split"
    /\ next_window > Len(windows)
    /\ merge_out' = Merge(tiles)
    /\ pc' = "done"
    /\ UNCHANGED <<mode, geoVars, splitVars, decoded, serVars, ct_error, bounds_out,
                   tiles, next_window>>

NextTrip == TripBounds \/ TripWindows \/ TripSplit \/ TripMerge

SpecTrip == InitTrip /\ [][NextTrip]_vars

\* C17: for a dataset D with a purely scaling geo-transform, splitting D
\* along every window of get_windows for get_bounds(D), dropping the None
\* results and merging the rest yields a dataset with the origin (a, d), the
\* width and the height of D.
C17_RoundTripExtent ==
    (mode = "trip" /\ pc = "done") =>
        /\ merge_out.kind = "Ok"
        /\ merge_out.dataset.transform[1] = dataset.transform[1]
        /\ merge_out.dataset.transform[4] = dataset.transform[4]
        /\ merge_out.dataset.width = dataset.width
        /\ merge_out.dataset.height = dataset.height

----------------------------------------------------------------------------
(* serialize.rs: write and read.  A stream is a sequence of bytes (0..255). *)
(* A dataset here carries what the format carries: width, height, the     *)
(* geo-transform, the projection as the UTF-8 bytes of the string, and for *)
(* every band its pixel type, its no-data value (<<>> or <<v>>) and its    *)
(* pixels, keyed by <<band, x, y>>.  Numbers are integers; the f64 and f32  *)
(* encodings are the IEEE-754 ones of those integers.                      *)

\* gdal_sys::GDALDataType, as matched in read_raster and write_raster
GDT_Byte == 1

GDT_UInt16 == 2

GDT_Int16 == 3

GDT_Int32 == 5

GDT_Float32 == 6

\* the arms of the match in read_raster (lines 61-113) and write_raster
\* (lines 160-188)
SupportedType(tag) == tag \in {GDT_Byte, GDT_Int16, GDT_UInt16, GDT_Float32}

RECURSIVE Flatten(_)
Flatten(seqs) ==
    IF seqs = <<>> THEN <<>> ELSE Head(seqs) \o Flatten(Tail(seqs))

RECURSIVE Log2(_)
Log2(n) == IF n < 2 THEN 0 ELSE 1 + Log2(n \div 2)

\* write_u32::<BigEndian>(n as u32)
U32Bytes(n) ==
    <<(n \div 16777216) % 256, (n \div 65536) % 256, (n \div 256) % 256, n % 256>>

\* read_u32::<BigEndian>
U32Value(b) == (((((b[1] * 256) + b[2]) * 256) + b[3]) * 256) + b[4]

\* write_i16::<BigEndian>: two's complement
I16Bytes(v) ==
    LET u == IF v < 0 THEN v + 65536 ELSE v
    IN  <<u \div 256, u % 256>>

\* read_i16::<BigEndian>
I16Value(b) ==
    LET u == (b[1] * 256) + b[2]
    IN  IF u >= 32768 THEN u - 65536 ELSE u

\* write_u16::<BigEndian>
U16Bytes(v) == <<v \div 256, v % 256>>

\* read_u16::<BigEndian>
U16Value(b) == (b[1] * 256) + b[2]

\* write_f64::<BigEndian> of an integer of magnitude below 2^20: sign,
\* 11 bits of exponent, 52 bits of fraction of which the low 32 are 0
F64Bytes(v) ==
    IF v = 0 THEN <<0, 0, 0, 0, 0, 0, 0, 0>>
    ELSE LET m == IF v < 0 THEN -v ELSE v
             e == Log2(m)
             expf == e + 1023
             top == (m - (2 ^ e)) * (2 ^ (20 - e))
             sign == IF v < 0 THEN 128 ELSE 0
         IN  <<sign + (expf \div 16), ((expf % 16) * 16) + (top \div 65536),
               (top \div 256) % 256, top % 256, 0, 0, 0, 0>>

\* read_f64::<BigEndian>; bytes that are not an integer of magnitude below
\* 2^20 stand for themselves
F64Value(b) ==
    LET expf == ((b[1] % 128) * 16) + (b[2] \div 16)
        top == (((b[2] % 16) * 256 + b[3]) * 256) + b[4]
        e == expf - 1023
        low == <<b[5], b[6], b[7], b[8]>> = <<0, 0, 0, 0>>
    IN  IF low /\ expf = 0 /\ top = 0 THEN 0
        ELSE IF low /\ 0 <= e /\ e <= 20 /\ top % (2 ^ (20 - e)) = 0
        THEN (IF b[1] >= 128 THEN -1 ELSE 1) * ((2 ^ e) + (top \div (2 ^ (20 - e))))
        ELSE b

\* write_f32::<BigEndian> of an integer of magnitude below 2^23: sign,
\* 8 bits of exponent, 23 bits of fraction
F32Bytes(v) ==
    IF v = 0 THEN <<0, 0, 0, 0>>
    ELSE LET m == IF v < 0 THEN -v ELSE v
             e == Log2(m)
             expf == e + 127
             frac == (m - (2 ^ e)) * (2 ^ (23 - e))
             sign == IF v < 0 THEN 128 ELSE 0
         IN  <<sign + (expf \div 2), ((expf % 2) * 128) + (frac \div 65536),
               (frac \div 256) % 256, frac % 256>>

\* read_f32::<BigEndian>
F32Value(b) ==
    LET expf == ((b[1] % 128) * 2) + (b[2] \div 128)
        frac == (((b[2] % 128) * 256 + b[3]) * 256) + b[4]
        e == expf - 127
    IN  IF expf = 0 /\ frac = 0 THEN 0
        ELSE IF 0 <= e /\ e <= 23 /\ frac % (2 ^ (23 - e)) = 0
        THEN (IF b[1] >= 128 THEN -1 ELSE 1) * ((2 ^ e) + (frac \div (2 ^ (23 - e))))
        ELSE b

\* the width of a pixel in the stream
PixelWidth(tag) ==
    IF tag = GDT_Byte THEN 1 ELSE IF tag = GDT_Float32 THEN 4 ELSE 2

\* write_raster lines 160-186: one pixel of the band's type
PixelBytes(tag, v) ==
    IF tag = GDT_Byte THEN <<v>>
    ELSE IF tag = GDT_Int16 THEN I16Bytes(v)
    ELSE IF tag = GDT_UInt16 THEN U16Bytes(v)
    ELSE F32Bytes(v)

\* read_raster lines 62-110: one pixel of the type the band's tag names
PixelValue(tag, b) ==
    IF tag = GDT_Byte THEN b[1]
    ELSE IF tag = GDT_Int16 THEN I16Value(b)
    ELSE IF tag = GDT_UInt16 THEN U16Value(b)
    ELSE F32Value(b)

\* rasterband.write::<T>: the library stores a value of the buffer's type in
\* a band of another type by clamping it to the band's range
StoreAs(tag, v) ==
    IF tag = GDT_Byte THEN Max(0, Min(255, v))
    ELSE IF tag = GDT_Int16 THEN Max(-32768, Min(32767, v))
    ELSE IF tag = GDT_UInt16 THEN Max(0, Min(65535, v))
    ELSE v

\* String::from_utf8 (line 25): the well-formed byte sequences of UTF-8
RECURSIVE ValidUtf8(_)
ValidUtf8(b) ==
    LET n == Len(b)
        Cont(i) == i <= n /\ 128 <= b[i] /\ b[i] <= 191
        Rest(k) == ValidUtf8(SubSeq(b, k + 1, n))
    IN  IF n = 0 THEN TRUE
        ELSE IF b[1] < 128 THEN Rest(1)
        ELSE IF 194 <= b[1] /\ b[1] <= 223 THEN Cont(2) /\ Rest(2)
        ELSE IF b[1] = 224
        THEN Cont(2) /\ b[2] >= 160 /\ Cont(3) /\ Rest(3)
        ELSE IF b[1] = 237
        THEN Cont(2) /\ b[2] <= 159 /\ Cont(3) /\ Rest(3)
        ELSE IF 225 <= b[1] /\ b[1] <= 239 THEN Cont(2) /\ Cont(3) /\ Rest(3)
        ELSE IF b[1] = 240
        THEN Cont(2) /\ b[2] >= 144 /\ Cont(3) /\ Cont(4) /\ Rest(4)
        ELSE IF b[1] = 244
        THEN Cont(2) /\ b[2] <= 143 /\ Cont(3) /\ Cont(4) /\ Rest(4)
        ELSE IF 241 <= b[1] /\ b[1] <= 243
        THEN Cont(2) /\ Cont(3) /\ Cont(4) /\ Rest(4)
        ELSE FALSE

\* the bytes of b from position pos (1-based), k of them
Take(b, pos, k) == SubSeq(b, pos, (pos + k) - 1)

\* init_dataset, for a dataset with typed bands: every band has the one
\* pixel type given, carries no_data and is filled with it (0 without one)
InitTyped(gdal_type, width, height, count, no_data) ==
    [width |-> width, height |-> height,
     transform |-> <<0, 1, 0, 0, 0, 1>>, projection |-> <<>>,
     types |-> [k \in 1..count |-> gdal_type],
     no_data |-> [k \in 1..count |-> no_data],
     pixels |-> [q \in (1..count) \X (0..(width - 1)) \X (0..(height - 1)) |->
                    IF no_data = <<>> THEN 0 ELSE StoreAs(gdal_type, no_data[1])]]

\* read_band_as::<T>().data: the pixels of a band, row by row
BandData(ds, index) ==
    [i \in 1..(ds.width * ds.height) |->
        ds.pixels[<<index, (i - 1) % ds.width, (i - 1) \div ds.width>>]]

\* lines 155-191: write_raster(dataset, index, writer)
WriteRaster(ds, index) ==
    LET gdal_type == ds.types[index]
        data == BandData(ds, index)
    IN  IF ~SupportedType(gdal_type)
        THEN [kind |-> "Panic", bytes |-> U32Bytes(gdal_type)]
        ELSE [kind |-> "Ok",
              bytes |-> U32Bytes(gdal_type) \o
                        Flatten([i \in 1..Len(data) |->
                                    PixelBytes(gdal_type, data[i])])]

\* lines 145-148: the loop over the bands, from band index on
RECURSIVE WriteRasters(_, _)
WriteRasters(ds, index) ==
    IF index > Len(ds.types) THEN [kind |-> "Ok", bytes |-> <<>>]
    ELSE LET w == WriteRaster(ds, index)
             rest == WriteRasters(ds, index + 1)
         IN  IF w.kind # "Ok" THEN w
             ELSE [kind |-> rest.kind, bytes |-> w.bytes \o rest.bytes]

\* lines 117-153: write(dataset, writer); bytes is what the writer received
Write(ds) ==
    LET head == U32Bytes(ds.width) \o U32Bytes(ds.height) \o
                Flatten([k \in 1..6 |-> F64Bytes(ds.transform[k])]) \o
                U32Bytes(Len(ds.projection)) \o ds.projection
    IN  IF Len(ds.types) = 0 THEN [kind |-> "Err", bytes |-> head]
        ELSE LET no_data == ds.no_data[1]
                 rasters == WriteRasters(ds, 1)
             IN  [kind |-> rasters.kind,
                  bytes |-> head \o U32Bytes(ds.types[1]) \o
                            (IF no_data = <<>> THEN <<0>>
                             ELSE <<1>> \o F64Bytes(no_data[1])) \o
                            <<Len(ds.types) % 256>> \o rasters.bytes]

\* what read returns without a dataset: an Err value, or no return (panic)
ReadFails(kind) == [kind |-> kind, dataset |-> NoDataset, rest |-> <<>>]

\* lines 53-115: read_raster(dataset, index, reader) with the reader at pos;
\* then the rest of the loop of read (lines 46-48) up to band count
RECURSIVE ReadRasters(_, _, _, _, _)
ReadRasters(bytes, pos, ds, index, count) ==
    IF index > count
    THEN [kind |-> "Ok", dataset |-> ds,
          rest |-> SubSeq(bytes, pos, Len(bytes))]
    ELSE IF Len(bytes) < pos + 3 THEN ReadFails("Err")
    ELSE LET gdal_type == U32Value(Take(bytes, pos, 4))
             size == ds.width * ds.height
             w == PixelWidth(gdal_type)
         IN  IF ~SupportedType(gdal_type) THEN ReadFails("Panic")
             ELSE IF Len(bytes) < (pos + 3) + (size * w) THEN ReadFails("Err")
             ELSE ReadRasters(bytes, (pos + 4) + (size * w),
                      [ds EXCEPT !.pixels =
                          [q \in DOMAIN ds.pixels |->
                              IF q[1] # index THEN ds.pixels[q]
                              ELSE StoreAs(ds.types[index],
                                       PixelValue(gdal_type,
                                           Take(bytes,
                                                (pos + 4) + (((q[3] * ds.width) + q[2]) * w),
                                                w)))]],
                      index + 1, count)

\* lines 9-51: read(reader)
Read(bytes) ==
    LET n == Len(bytes)
    IN  IF n < 60 THEN ReadFails("Err")
        ELSE
        LET width == U32Value(Take(bytes, 1, 4))
            height == U32Value(Take(bytes, 5, 4))
            transform == [k \in 1..6 |-> F64Value(Take(bytes, 1 + (8 * k), 8))]
            projection_len == U32Value(Take(bytes, 57, 4))
            projection == Take(bytes, 61, projection_len)
            p == 61 + projection_len
        IN  IF n < p - 1 THEN ReadFails("Err")
            ELSE IF ~ValidUtf8(projection) THEN ReadFails("Err")
            ELSE IF n < p + 4 THEN ReadFails("Err")
            ELSE
            LET gdal_type == U32Value(Take(bytes, p, 4))
                some == bytes[p + 4] # 0
                q == (p + 5) + (IF some THEN 8 ELSE 0)
            IN  IF n < q THEN ReadFails("Err")
                ELSE
                LET no_data_value == IF some
                                     THEN <<F64Value(Take(bytes, p + 5, 8))>>
                                     ELSE <<>>
                    rasterband_count == bytes[q]
                IN  IF ~SupportedType(gdal_type) THEN ReadFails("Panic")
                    ELSE ReadRasters(bytes, q + 1,
                             [InitTyped(gdal_type, width, height,
                                        rasterband_count, no_data_value)
                                 EXCEPT !.transform = transform,
                                        !.projection = projection],
                             1, rasterband_count)

----------------------------------------------------------------------------
(* A caller that writes a dataset to a buffer and reads the buffer back   *)
(* (tests::serialize_cycle, lines 200-240), with the buffer possibly      *)
(* damaged in between.                                                     *)

MaxSerWidth == 2

SerHeights == {1, 2}

\* "EP" and "é"
SerProjections == { <<69, 80>>, <<195, 169>> }

SerTransforms == { <<4, 2, 0, -7, 0, -2>> }

\* two pixel values of every type, the extremes of the type among them
SerValues(gdal_type) ==
    IF gdal_type = GDT_Byte THEN <<7, 255>>
    ELSE IF gdal_type = GDT_Int16 THEN <<-2, 300>>
    ELSE IF gdal_type = GDT_UInt16 THEN <<65535, 1>>
    ELSE <<-3, 70000>>

\* a band: its pixel type and its no-data value
SerBands == {GDT_Byte, GDT_Int16, GDT_UInt16, GDT_Float32} \X {<<>>, <<0>>}

\* a dataset of the bands given, whose neighbouring pixels differ
SerDataset(width, height, t, projection, bands) ==
    [width |-> width, height |-> height, transform |-> t,
     projection |-> projection,
     types |-> [k \in 1..Len(bands) |-> bands[k][1]],
     no_data |-> [k \in 1..Len(bands) |-> bands[k][2]],
     pixels |-> [q \in (1..Len(bands)) \X (0..(width - 1)) \X (0..(height - 1)) |->
                    SerValues(bands[q[1]][1])[(((q[1] + q[2]) + q[3]) % 2) + 1]]]

InitSerialize ==
    /\ mode = "serialize"
    /\ pc = "call"
    /\ geocode \in {"Geohash"}
    /\ ex = FxInt(0)
    /\ ey = FxInt(0)
    /\ precision = 0
    /\ build = "release"
    /\ result = NoResult
    /\ intervals = NoIntervals
    /\ box = NoBox
    /\ windows = <<>>
    /\ \E width \in 1..MaxSerWidth, height \in SerHeights, t \in SerTransforms,
          projection \in SerProjections, b1 \in SerBands :
           \/ dataset = SerDataset(width, height, t, projection, <<b1>>)
           \/ \E b2 \in SerBands :
                 dataset = SerDataset(width, height, t, projection, <<b1, b2>>)
    /\ win = <<0, 0, 0, 0>>
    /\ coord_transform = <<0, 0, 0, 0, 0, 0>>
    /\ bound_min_px = 0 /\ bound_max_px = 0
    /\ bound_min_py = 0 /\ bound_max_py = 0
    /\ bound_min_cx = 0 /\ bound_max_cx = 0
    /\ bound_min_cy = 0 /\ bound_max_cy = 0
    /\ iterations = 0
    /\ split_out = NoSplit
    /\ decoded = NoDecoded
    /\ ct_error = "none"
    /\ bounds_out = NoBounds
    /\ MergeIdle
    /\ SerIdle

\* lines 117-153: write(&dataset, &mut buffer)
WriteCall ==
    /\ mode = "serialize"
    /\ pc = "call"
    /\ LET w == Write(dataset)
       IN  /\ buffer' = w.bytes
           /\ pc' = IF w.kind = "Ok" THEN "written" ELSE "failed"
    /\ UNCHANGED <<mode, geoVars, splitVars, decoded, ct_error, bounds_out,
                   mergeVars, fault, dataset2>>

\* the bytes of new written over those of b after the first off
Overwrite(b, off, new) ==
    [i \in 1..Len(b) |->
        IF off < i /\ i <= off + Len(new) THEN new[i - off] ELSE b[i]]

\* the number of bytes write puts before the pixel-type tag of the header
TagOffset(ds) == 60 + Len(ds.projection)

\* the number of bytes write puts before the pixel-type tag of band index
RECURSIVE BandOffset(_, _)
BandOffset(ds, index) ==
    IF index = 1
    THEN (TagOffset(ds) + 6) + (IF ds.no_data[1] = <<>> THEN 0 ELSE 8)
    ELSE (BandOffset(ds, index - 1) + 4) +
         ((ds.width * ds.height) * PixelWidth(ds.types[index - 1]))

\* the reader ends before the end of what write produced
TruncateStream ==
    /\ mode = "serialize"
    /\ pc = "written"
    /\ fault = "none"
    /\ \E n \in 0..(Len(buffer) - 1) : buffer' = SubSeq(buffer, 1, n)
    /\ fault' = "truncated"
    /\ UNCHANGED <<mode, pc, geoVars, splitVars, decoded, ct_error, bounds_out,
                   mergeVars, dataset2>>

\* a byte of the projection is one that no UTF-8 string holds
BreakProjection ==
    /\ mode = "serialize"
    /\ pc = "written"
    /\ fault = "none"
    /\ \E i \in 1..Len(dataset.projection), v \in {192, 255} :
          buffer' = Overwrite(buffer, 59 + i, <<v>>)
    /\ fault' = "utf8"
    /\ UNCHANGED <<mode, pc, geoVars, splitVars, decoded, ct_error, bounds_out,
                   mergeVars, dataset2>>

\* the pixel-type tag of the header is none of the four
BreakHeaderTag ==
    /\ mode = "serialize"
    /\ pc = "written"
    /\ fault = "none"
    /\ \E tag \in {0, GDT_Int32} :
          buffer' = Overwrite(buffer, TagOffset(dataset), U32Bytes(tag))
    /\ fault' = "header tag"
    /\ UNCHANGED <<mode, pc, geoVars, splitVars, decoded, ct_error, bounds_out,
                   mergeVars, dataset2>>

\* the pixel-type tag of a band is none of the four
BreakBandTag ==
    /\ mode = "serialize"
    /\ pc = "written"
    /\ fault = "none"
    /\ \E index \in 1..Len(dataset.types), tag \in {0, GDT_Int32} :
          buffer' = Overwrite(buffer, BandOffset(dataset, index), U32Bytes(tag))
    /\ fault' = "band tag"
    /\ UNCHANGED <<mode, pc, geoVars, splitVars, decoded, ct_error, bounds_out,
                   mergeVars, dataset2>>

\* lines 9-51: read(&mut cursor)
ReadCall ==
    /\ mode = "serialize"
    /\ pc = "written"
    /\ dataset2' = Read(buffer)
    /\ pc' = "read"
    /\ UNCHANGED <<mode, geoVars, splitVars, decoded, ct_error, bounds_out,
                   mergeVars, buffer, fault>>

NextSerialize ==
    \/ WriteCall
    \/ TruncateStream
    \/ BreakProjection
    \/ BreakHeaderTag
    \/ BreakBandTag
    \/ ReadCall

SpecSerialize == InitSerialize /\ [][NextSerialize]_vars

----------------------------------------------------------------------------
(* Claims about write and read, checked under SpecSerialize.               *)

SerRead == mode = "serialize" /\ pc = "read"

\* the fields of the format that the spec lists, in its order
SpecLayout(ds) ==
    U32Bytes(ds.width) \o U32Bytes(ds.height) \o
    F64Bytes(ds.transform[1]) \o F64Bytes(ds.transform[2]) \o
    F64Bytes(ds.transform[3]) \o F64Bytes(ds.transform[4]) \o
    F64Bytes(ds.transform[5]) \o F64Bytes(ds.transform[6]) \o
    U32Bytes(Len(ds.projection)) \o ds.projection \o
    U32Bytes(ds.types[1]) \o
    (IF ds.no_data[1] = <<>> THEN <<0>> ELSE <<1>> \o F64Bytes(ds.no_data[1][1])) \o
    <<Len(ds.types)>> \o
    Flatten([k \in 1..Len(ds.types) |->
        U32Bytes(ds.types[k]) \o
        Flatten([i \in 1..(ds.width * ds.height) |->
            PixelBytes(ds.types[k],
                ds.pixels[<<k, (i - 1) % ds.width, (i - 1) \div ds.width>>])])])

\* the dataset read back is the dataset written
SameDataset(a, b) ==
    /\ a.width = b.width
    /\ a.height = b.height
    /\ \A k \in 1..6 : a.transform[k] = b.transform[k]
    /\ a.projection = b.projection
    /\ Len(a.types) = Len(b.types)
    /\ \A k \in 1..Len(b.types) :
          /\ a.types[k] = b.types[k]
          /\ a.no_data[k] = b.no_data[k]
    /\ DOMAIN a.pixels = DOMAIN b.pixels
    /\ \A q \in DOMAIN b.pixels : a.pixels[q] = b.pixels[q]

\* C19: for every dataset D whose bands have a pixel type among U8, I16,
\* U16 and F32, read of the bytes of write(D) succeeds, consumes exactly
\* those bytes and yields a dataset with D's width, height, geo-transform,
\* projection, band count, per-band pixel type, no-data value and pixels;
\* the bytes are the big-endian fields the spec lists, in its order.
C19_SerializeRoundTrip ==
    (SerRead /\ fault = "none") =>
        /\ buffer = SpecLayout(dataset)
        /\ dataset2.kind = "Ok"
        /\ dataset2.rest = <<>>
        /\ SameDataset(dataset2.dataset, dataset)

\* the datasets for which the round trip does hold: one pixel type and one
\* no-data value for all bands
UniformBands ==
    \A k \in 1..Len(dataset.types) :
        /\ dataset.types[k] = dataset.types[1]
        /\ dataset.no_data[k] = dataset.no_data[1]

UniformRoundTrip ==
    (SerRead /\ fault = "none" /\ UniformBands) =>
        /\ buffer = SpecLayout(dataset)
        /\ dataset2.kind = "Ok"
        /\ dataset2.rest = <<>>
        /\ SameDataset(dataset2.dataset, dataset)

\* C20: read of a stream that is truncated, whose projection is not UTF-8
\* or whose pixel-type tag, in the header or before a band, is none of the
\* four returns an error value; it does not abort and returns no dataset.
C20_ReadErrors ==
    (SerRead /\ fault # "none") =>
        /\ dataset2.kind = "Err"
        /\ dataset2.dataset = NoDataset

----------------------------------------------------------------------------
(* Further claims about merge, checked under SpecMerge.                    *)

\* C21: merge of an empty list of datasets returns an error value to the
\* caller: it does not abort and it returns no dataset.
C21_MergeEmptyIsError ==
    (MergeDone /\ tiles = <<>>) =>
        /\ merge_out.kind = "Err"
        /\ merge_out.dataset = NoDataset

----------------------------------------------------------------------------
(* Further claims about split, checked under SpecSplit.                    *)

\* the pixel bounds as split seeds them, before any pass of the loop
SplitSeeded == mode = "split" /\ pc = "loop" /\ iterations = 0

\* n is the floor, the ceiling of the rational q (q[2] > 0)
IsFloor(n, q) == n * q[2] <= q[1] /\ q[1] < (n + 1) * q[2]

IsCeil(n, q) == (n - 1) * q[2] < q[1] /\ q[1] <= n * q[2]

\* n is q cut toward zero
IsTruncation(n, q) == IF q[1] >= 0 THEN IsFloor(n, q) ELSE IsCeil(n, q)

\* C22: before the first growth iteration the pixel bounds are
\* min_px = floor(center_px), max_px = ceil(center_px),
\* min_py = floor(center_py), max_py = ceil(center_py), for every centre.
C22_SeedFloorCeil ==
    SplitSeeded =>
        \A c \in {CenterPixel(dataset.transform, coord_transform, win)} :
            /\ IsFloor(bound_min_px, c[1])
            /\ IsCeil(bound_max_px, c[1])
            /\ IsFloor(bound_min_py, c[2])
            /\ IsCeil(bound_max_py, c[2])

\* C22, as the code has it: before the first growth iteration the four
\* pixel bounds are the centre cut toward zero, min_px = max_px and
\* min_py = max_py.
C22_SeedTruncated ==
    SplitSeeded =>
        \A c \in {CenterPixel(dataset.transform, coord_transform, win)} :
            /\ IsTruncation(bound_min_px, c[1])
            /\ bound_max_px = bound_min_px
            /\ IsTruncation(bound_min_py, c[2])
            /\ bound_max_py = bound_min_py

\* a centre that is negative and not whole in x, positive and not whole in y
C22_Witness ==
    /\ SplitSeeded
    /\ \E c \in {CenterPixel(dataset.transform, coord_transform, win)} :
          /\ c[1][1] < 0 /\ c[1][1] % c[1][2] # 0
          /\ c[2][1] > 0 /\ c[2][1] % c[2][2] # 0
          /\ bound_min_px = bound_max_px
          /\ ~IsFloor(bound_min_px, c[1])
          /\ ~IsCeil(bound_max_py, c[2])

\* a pass of the loop of split that widens the pixel box
GrowStep == mode = "split" /\ pc = "loop" /\ iterations' = iterations + 1

\* the first index (0-based, as in the code) of a largest entry of d
FirstLargest(d) ==
    CHOOSE i \in 0..3 :
        /\ \A j \in 0..3 : d[j + 1] <= d[i + 1]
        /\ \A j \in 0..(i - 1) : d[j + 1] < d[i + 1]

\* exactly the bound that index names moves, by one pixel, outward
WidensSide(index) ==
    /\ bound_min_px' = IF index = 0 THEN bound_min_px - 1 ELSE bound_min_px
    /\ bound_max_px' = IF index = 1 THEN bound_max_px + 1 ELSE bound_max_px
    /\ bound_max_py' = IF index = 2 THEN bound_max_py + 1 ELSE bound_max_py
    /\ bound_min_py' = IF index = 3 THEN bound_min_py - 1 ELSE bound_min_py

\* the envelope of the pixel box at the start of a pass
CurrentEnvelope ==
    Envelope(dataset.transform, coord_transform,
             bound_min_px, bound_max_px, bound_min_py, bound_max_py)

\* C23: in every growth iteration that does not terminate, the shortfalls
\* are (win_min_cx - bound_min_cx, bound_max_cx - win_max_cx,
\* win_min_cy - bound_min_cy, bound_max_cy - win_max_cy), the first index of
\* the largest is chosen and exactly the bound it names changes, by one pixel:
\* 0 -> min_px - 1, 1 -> max_px + 1, 2 -> max_py + 1, 3 -> min_py - 1.
C23_WidenByClaimedShortfalls ==
    [][GrowStep =>
        \A b \in {CurrentEnvelope} :
            WidensSide(FirstLargest(<<win[1] - b[1], b[2] - win[2],
                                      win[3] - b[3], b[4] - win[4]>>))]_vars

\* C23, as the code has it: the differences are (bound_min_cx - win_min_cx,
\* win_max_cx - bound_max_cx, bound_min_cy - win_min_cy,
\* win_max_cy - bound_max_cy), each positive where the envelope falls short
\* of the window; the first index of the largest is chosen and exactly the
\* bound it names changes by one pixel, so min_px and min_py never increase
\* and max_px and max_py never decrease.
C23_WidenLargestShortfall ==
    [][GrowStep =>
        \A b \in {CurrentEnvelope} :
            /\ WidensSide(FirstLargest(<<b[1] - win[1], win[2] - b[2],
                                         b[3] - win[3], win[4] - b[4]>>))
            /\ bound_min_px' <= bound_min_px /\ bound_max_px' >= bound_max_px
            /\ bound_min_py' <= bound_min_py /\ bound_max_py' >= bound_max_py]_vars

\* a box that passes of the loop widened on three sides
C23_Witness ==
    /\ mode = "split"
    /\ iterations >= 3
    /\ \E c \in {CenterPixel(dataset.transform, coord_transform, win)} :
          /\ bound_min_px < QTrunc(c[1])
          /\ bound_max_px > QTrunc(c[1])
          /\ bound_max_py > QTrunc(c[2])

\* a geo-transform that only scales, with y flipped: b > 0, f < 0, c = e = 0
NorthUp(t) == t[2] > 0 /\ t[6] < 0 /\ t[3] = 0 /\ t[5] = 0

\* a transformer that is strictly increasing on each axis on its own
AxisIncreasing(ct) == ct[1] > 0 /\ ct[4] > 0 /\ ct[2] = 0 /\ ct[3] = 0

\* the inputs of split that C24 and C26 are about
PlainSplit ==
    /\ mode = "split"
    /\ NorthUp(dataset.transform)
    /\ AxisIncreasing(coord_transform)
    /\ win[1] < win[2]
    /\ win[3] < win[4]

\* iterations <= (window width in source pixels) + (window height in source
\* pixels) + k, with the two quotients cleared of their denominators
WithinPasses(k) ==
    LET px == coord_transform[1] * dataset.transform[2]
        py == coord_transform[4] * (-dataset.transform[6])
    IN  ((iterations - k) * px) * py <=
            ((win[2] - win[1]) * py) + ((win[4] - win[3]) * px)

\* C24: for a geo-transform with b > 0, f < 0, c = e = 0, a transformer
\* that is increasing on each axis on its own and a window with min < max on
\* both axes, the growth loop of split ends: the passes that widen number at
\* most the window's width plus its height in source pixels plus 4, whatever
\* the size of the image, and a pass that finds the window not enveloped
\* still has a pass left within that bound (iterations + 1 <= width +
\* height + 4).
C24_LoopTerminates ==
    PlainSplit =>
        /\ WithinPasses(4)
        /\ (pc = "loop" /\ ~Envelopes(CurrentEnvelope, win)) =>
               /\ iterations < MaxGrow
               /\ WithinPasses(3)

\* a call of this kind that returned after passes in both directions, for
\* a window wider than a pixel
C24_Witness ==
    /\ PlainSplit
    /\ SplitDone
    /\ iterations >= 4
    /\ bound_max_px - bound_min_px >= 2
    /\ bound_max_py - bound_min_py >= 2

\* C25: for a geo-transform with T[5] > 0 (y not flipped) and a window with
\* min < max on both axes, the growth loop of split ends with an envelope
\* that contains the window: the lower bound of the envelope is never above
\* its upper bound, and after the passes the window's size allows the exit
\* test holds.
C25_UnflippedTerminates ==
    (/\ mode = "split"
     /\ dataset.transform[6] > 0
     /\ AxisIncreasing(coord_transform)
     /\ win[1] < win[2] /\ win[3] < win[4]
     /\ pc = "loop") =>
        /\ CurrentEnvelope[3] <= CurrentEnvelope[4]
        /\ iterations = MaxGrow => Envelopes(CurrentEnvelope, win)

\* the pixel box with which the loop of split was left
SplitExited == mode = "split" /\ pc \in {"exit", "done"}

\* the envelope of the pixel box (min_px, max_px, min_py, max_py) contains
\* the window
BoxEnvelopes(min_px, max_px, min_py, max_py) ==
    \A b \in {Envelope(dataset.transform, coord_transform,
                       min_px, max_px, min_py, max_py)} :
        b[1] <= win[1] /\ win[2] <= b[2] /\ b[3] <= win[3] /\ win[4] <= b[4]

\* C26: under b > 0, f < 0, c = e = 0 and a transformer increasing on each
\* axis, the pixel rectangle with which the growth loop is left contains the
\* window and is the tightest that does: with any one of its four sides
\* moved inward by one pixel its envelope no longer contains the window.
C26_TightestRectangle ==
    (PlainSplit /\ SplitExited) =>
        /\ BoxEnvelopes(bound_min_px, bound_max_px, bound_min_py, bound_max_py)
        /\ ~BoxEnvelopes(bound_min_px + 1, bound_max_px, bound_min_py, bound_max_py)
        /\ ~BoxEnvelopes(bound_min_px, bound_max_px - 1, bound_min_py, bound_max_py)
        /\ ~BoxEnvelopes(bound_min_px, bound_max_px, bound_min_py + 1, bound_max_py)
        /\ ~BoxEnvelopes(bound_min_px, bound_max_px, bound_min_py, bound_max_py - 1)

\* a rectangle of more than a pixel a side, reached by widening, for a
\* window whose edges are not all on pixel edges
C26_Witness ==
    /\ PlainSplit
    /\ SplitExited
    /\ iterations >= 3
    /\ bound_max_px - bound_min_px >= 2
    /\ coord_transform[1] = 2
    /\ dataset.transform[2] = 2

----------------------------------------------------------------------------
(* A caller that splits a dataset along windows of its own choosing, in   *)
(* the order of its choosing, and merges what split returned.             *)

\* the lower corners of the windows
TileCorners == {-1, 0, 1}

\* the windows, with whole coordinates as get_windows would pass them
TileWindows ==
    { <<FxInt(x0), FxInt(x0 + wx), FxInt(y0), FxInt(y0 + wy)>> :
        x0 \in TileCorners, y0 \in TileCorners, wx \in WindowSizes,
        wy \in WindowSizes }

\* two bands with a no-data value, with which split pads
TileLayouts == { <<2, <<-1>>>> }

InitTiles ==
    /\ mode = "trip"
    /\ pc = "split"
    /\ geocode \in {"Geohash"}
    /\ ex = FxInt(0)
    /\ ey = FxInt(0)
    /\ precision = 0
    /\ build = "release"
    /\ result = NoResult
    /\ intervals = NoIntervals
    /\ box = NoBox
    /\ \E w1 \in TileWindows :
          \/ windows = <<w1>>
          \/ \E w2 \in TileWindows : windows = <<w1, w2>>
    /\ \E width, height \in 1..MaxSize, t \in ScalingTransforms,
          l \in TileLayouts :
           dataset = SourceDataset(width, height, t, l)
    /\ win = <<0, 0, 0, 0>>
    /\ coord_transform \in AxisTransformers
    /\ bound_min_px = 0 /\ bound_max_px = 0
    /\ bound_min_py = 0 /\ bound_max_py = 0
    /\ bound_min_cx = 0 /\ bound_max_cx = 0
    /\ bound_min_cy = 0 /\ bound_max_cy = 0
    /\ iterations = 0
    /\ split_out = NoSplit
    /\ decoded = NoDecoded
    /\ ct_error = "none"
    /\ bounds_out = NoBounds
    /\ tiles = <<>>
    /\ next_window = 1
    /\ merge_out = NoMerge
    /\ SerIdle

NextTiles == TripSplit \/ TripMerge

SpecTiles == InitTiles /\ [][NextTiles]_vars

TilesMerged == mode = "trip" /\ pc = "done" /\ Len(tiles) > 0

\* pixel (x, y) of the source lies in the dataset tile, which shares the
\* source's pixel grid
CoveredBy(tile, x, y) ==
    \A tx \in {(((dataset.transform[1] + (x * dataset.transform[2])) - tile.transform[1])
                   \div dataset.transform[2])},
       ty \in {(((dataset.transform[4] + (y * dataset.transform[6])) - tile.transform[4])
                   \div dataset.transform[6])} :
        0 <= tx /\ tx < tile.width /\ 0 <= ty /\ ty < tile.height

\* C27: for a dataset D with b > 0, f < 0, c = e = 0 and any windows, in any
\* order, the merge of the datasets split returned succeeds, and every pixel
\* of D that lies in one of them is in the merged dataset, at the pixel with
\* the same world coordinate, with the value it has in D.
C27_PixelsPreserved ==
    TilesMerged =>
        /\ merge_out.kind = "Ok"
        /\ \A M \in {merge_out.dataset}, a \in {dataset.transform[1]},
              b \in {dataset.transform[2]}, d \in {dataset.transform[4]},
              f \in {dataset.transform[6]} :
              \A x \in 0..(dataset.width - 1), y \in 0..(dataset.height - 1) :
                  (\E k \in 1..Len(tiles) : CoveredBy(tiles[k], x, y)) =>
                      \A mx \in {((a + (x * b)) - M.transform[1]) \div b},
                         my \in {((d + (y * f)) - M.transform[4]) \div f},
                         band \in 1..dataset.count :
                          /\ <<band, mx, my>> \in DOMAIN M.pixels
                          /\ M.pixels[<<band, mx, my>>] = dataset.pixels[<<band, x, y>>]

\* two datasets that overlap on a pixel of D, the second of them padded
\* with no-data outside D
C27_Witness ==
    /\ TilesMerged
    /\ merge_out.kind = "Ok"
    /\ Len(tiles) = 2
    /\ dataset.no_data # <<>>
    /\ \E x \in 0..(dataset.width - 1), y \in 0..(dataset.height - 1) :
          CoveredBy(tiles[1], x, y) /\ CoveredBy(tiles[2], x, y)
    /\ \E q \in DOMAIN tiles[2].pixels : tiles[2].pixels[q] = dataset.no_data[1]
    /\ tiles[1].transform # tiles[2].transform

----------------------------------------------------------------------------
(* A further claim about encode, checked under SpecEncode.                 *)

\* the string a is the beginning of the string b
IsPrefix(a, b) == Len(a) <= Len(b) /\ \A i \in 1..Len(a) : a[i] = b[i]

\* C28: for each geocode, every point within the native bounds and all
\* precisions p < q, encode(x, y, p) is a prefix of encode(x, y, q).  Checked
\* for q the precision of the call and p = q - 1, which gives every p < q
\* as the calls range over all precisions.
C28_EncodePrefix ==
    (Returned /\ InsideBounds(geocode, ex, ey) /\ precision >= 1) =>
        /\ result.kind = "Ok"
        /\ \A shorter \in {Encode(geocode, ex, ey, precision - 1, build)} :
              /\ shorter.kind = "Ok"
              /\ IsPrefix(shorter.out, result.out)
              /\ Len(shorter.out) = precision - 1

----------------------------------------------------------------------------
(* The block that split copies, checked under SpecSplit.                  *)

\* the six relations of one axis: the block lies in the source raster
\* (of size src_size) and in the output raster (of size bound_max -
\* bound_min), and source and output positions differ by bound_min
BlockInBounds(bound_min, bound_max, src_size) ==
    \A src_offset \in {SrcOffset(bound_min)},
       buf_size \in {BufSize(bound_min, bound_max, src_size)},
       dst_offset \in {DstOffset(bound_min)} :
        /\ 0 <= src_offset
        /\ buf_size >= 0
        /\ src_offset + buf_size <= src_size
        /\ 0 <= dst_offset
        /\ dst_offset + buf_size <= bound_max - bound_min
        /\ src_offset - dst_offset = bound_min

\* C29: whenever split does not return None, the block it copies is in
\* bounds of both rasters and aligned, on the x axis (W, buf_width, min_px,
\* max_px) and on the y axis (H, buf_height, min_py, max_py).
C29_BlockInBounds ==
    (SplitDone /\ split_out.kind = "Some") =>
        /\ BlockInBounds(bound_min_px, bound_max_px, dataset.width)
        /\ BlockInBounds(bound_min_py, bound_max_py, dataset.height)
        /\ split_out.dataset.width = bound_max_px - bound_min_px
        /\ split_out.dataset.height = bound_max_py - bound_min_py

\* a pixel box that overhangs the image on the left and on the right, and
\* below
C29_Witness ==
    /\ SplitDone
    /\ split_out.kind = "Some"
    /\ bound_min_px < 0
    /\ bound_max_px > dataset.width
    /\ bound_max_py > dataset.height
    /\ BufSize(bound_min_px, bound_max_px, dataset.width) > 0

----------------------------------------------------------------------------
(* The pixels of a merged dataset, checked under SpecMerge.                *)

\* the offset of dataset ds in the merged dataset M, in whole pixels
BlockOffset(ds, M) ==
    <<(ds.transform[1] - M.transform[1]) \div M.transform[2],
      (M.transform[4] - ds.transform[4]) \div (-M.transform[6])>>

\* output pixel (x, y) lies in the block of dataset ds
InBlock(ds, M, x, y) ==
    \A off \in {BlockOffset(ds, M)} :
        /\ off[1] <= x /\ x < off[1] + ds.width
        /\ off[2] <= y /\ y < off[2] + ds.height

\* the inputs whose block holds output pixel (x, y)
Covering(M, x, y) == {k \in 1..Len(tiles) : InBlock(tiles[k], M, x, y)}

\* C30: merge copies its inputs in list order, each as a whole block at its
\* offset: an output pixel covered by several inputs holds the value of the
\* last covering input in list order, no-data pixels included; one covered
\* by exactly one input holds that input's value; one covered by no input
\* holds the no-data value of the first input's band 1.
C30_LastInputWins ==
    (MergeDone /\ merge_out.kind = "Ok") =>
        \A M \in {merge_out.dataset} :
            \A q \in DOMAIN M.pixels :
                \A cover \in {Covering(M, q[2], q[3])} :
                    IF cover = {}
                    THEN tiles[1].no_data # <<>> =>
                             M.pixels[q] = tiles[1].no_data[1]
                    ELSE \A k \in {Greatest(cover)} :
                            \A off \in {BlockOffset(tiles[k], M)} :
                                M.pixels[q] =
                                    tiles[k].pixels[<<q[1], q[2] - off[1],
                                                      q[3] - off[2]>>]

\* two inputs of which the second lays a no-data pixel over a pixel of the
\* first, in a merged dataset that also has a pixel no input covers
C30_Witness ==
    /\ MergeDone
    /\ merge_out.kind = "Ok"
    /\ Len(tiles) = 2
    /\ tiles[1].no_data # <<>>
    /\ \E M \in {merge_out.dataset} :
          /\ \E q \in DOMAIN M.pixels : Covering(M, q[2], q[3]) = {}
          /\ \E q \in DOMAIN M.pixels :
                /\ q[1] = 1
                /\ Covering(M, q[2], q[3]) = {1, 2}
                /\ M.pixels[q] = tiles[1].no_data[1]
          /\ \E q \in DOMAIN M.pixels : Covering(M, q[2], q[3]) = {1}

====
